---- MODULE Spec2Model ----
(***************************************************************************)
(* Model of eeyrsja/fantasy-genius, src/main.py: one call of               *)
(* select_initial_squad (validation, expected-points builder, exact and    *)
(* heuristic solver, fixture summary), one call of                         *)
(* _calculate_fixture_multiplier, and one call of select_starting_eleven.  *)
(*                                                                         *)
(* Units.  Money is kept in tenths of a million (the API unit of           *)
(* now_cost); budget_million is kept in hundredths of a million, so that   *)
(* int(budget_million * 10) truncates.  A fixture multiplier is kept in    *)
(* tenths (1.4 -> 14); a per-round points value is kept in 1/38ths, so a   *)
(* windowed expected-points value is an integer number of 1/380ths.        *)
(* A per-round column is named by its round: n stands for "ep_gw<n>".      *)
(***************************************************************************)
EXTENDS Integers, Sequences, FiniteSets, TLC

VARIABLES
    players,          \* rows of the players table (a sequence of records)
    columns,          \* the column names of the players table
    fixtures,         \* the fixture table: [cols, rows]
    gw_start, gw_end, \* the round window
    budget_million,   \* budget, in hundredths of a million
    solver,           \* "mip", "ga" or another string
    expected_points_cols, \* [given, names]: the argument, not given when None
    players_work,     \* the named per-round columns of the augmented table
    pc,               \* position of the call
    err,              \* the exception raised, kind "none" while none
    exp_pts_window,   \* row index -> windowed expected points (1/380ths)
    result,           \* the SquadResult returned, kind "none" while none
    selected_players, \* heuristic: row indices taken so far, in order
    remaining_budget, \* heuristic: budget left, in tenths
    element_type,     \* heuristic: class being filled (1..4)
    count,            \* heuristic: players taken in the current class
    position_players, \* heuristic: the class's rows in first-pass order
    idx,              \* heuristic: next position in position_players
    cheapest_todo,    \* heuristic: rows the second pass has not visited
    the_gameweek,     \* the gameweek argument of a multiplier or lineup call
    multipliers,      \* the Series _calculate_fixture_multiplier returns
    squad_df,         \* lineup: the squad table of the SquadResult
    captain_multiplier,      \* lineup: captain weight, in tenths
    vice_captain_multiplier, \* lineup: vice-captain weight, in tenths
    formation_idx,    \* lineup: position in allowed_formations
    best_so_far,      \* lineup: best_formation, best_points, ... so far
    lineup            \* the StartingElevenResult, kind "none" while none

vars == <<players, columns, fixtures, gw_start, gw_end, budget_million, solver,
          expected_points_cols, players_work,
          pc, err, exp_pts_window, result, selected_players, remaining_budget,
          element_type, count, position_players, idx, cheapest_todo,
          the_gameweek, multipliers, squad_df, captain_multiplier,
          vice_captain_multiplier, formation_idx, best_so_far, lineup>>

ga_vars == <<selected_players, remaining_budget, element_type, count,
             position_players, idx, cheapest_todo>>

input_vars == <<players, columns, fixtures, gw_start, gw_end, budget_million,
                solver, expected_points_cols>>

multiplier_vars == <<the_gameweek, multipliers>>

lineup_vars == <<squad_df, captain_multiplier, vice_captain_multiplier,
                 formation_idx, best_so_far, lineup>>

\* what a call of select_initial_squad never touches
other_calls == <<multiplier_vars, lineup_vars>>

\* the augmented table: per-round columns and their sum
built_vars == <<exp_pts_window, players_work>>

----------------------------------------------------------------------------
(* Program constants *)

SquadSize == 15
MaxPerClub == 3
LimitGK == 2
LimitDEF == 5
LimitMID == 5
LimitFWD == 3
LastGameweek == 38
UnitsPerMillion == 10
MinBasePoints38 == 19
FillPoints == 50
DefaultDifficulty == 3

\* position_mapping = {1: 'GK', 2: 'DEF', 3: 'MID', 4: 'FWD'}
position_mapping == <<"GK", "DEF", "MID", "FWD">>

\* position_limits = {'GK': 2, 'DEF': 5, 'MID': 5, 'FWD': 3}
position_limits(position) ==
    CASE position = "GK" -> LimitGK
      [] position = "DEF" -> LimitDEF
      [] position = "MID" -> LimitMID
      [] position = "FWD" -> LimitFWD

required_cols == <<"id", "element_type", "team", "now_cost">>

----------------------------------------------------------------------------
(* Generic helpers *)

Range(s) == {s[i] : i \in DOMAIN s}

Max(a, b) == IF a > b THEN a ELSE b

RECURSIVE SumOver(_, _)
\* sum of f[x] over the finite set S
SumOver(S, f) ==
    IF S = {} THEN 0
    ELSE LET x == CHOOSE y \in S : TRUE IN f[x] + SumOver(S \ {x}, f)

RECURSIVE SetToSortedSeq(_)
\* ascending sequence of a finite set of integers
SetToSortedSeq(S) ==
    IF S = {} THEN <<>>
    ELSE LET m == CHOOSE x \in S : \A y \in S : x <= y
         IN <<m>> \o SetToSortedSeq(S \ {m})

RECURSIVE KSubsets(_, _)
\* the k-element subsets of a finite set of integers
KSubsets(S, k) ==
    IF k = 0 THEN {{}}
    ELSE IF Cardinality(S) < k THEN {}
    ELSE LET x == CHOOSE y \in S : \A z \in S : y <= z
         IN {T \cup {x} : T \in KSubsets(S \ {x}, k - 1)} \cup KSubsets(S \ {x}, k)

NoError == [kind |-> "none", msg |-> "", cols |-> <<>>]
NoResult == [kind |-> "none"]

----------------------------------------------------------------------------
(* Bounds of the model *)

MaxGw == 2            \* windows are drawn from 0..MaxGw and the season's end
MaxBudgetStep == 3    \* number of budget steps above the lowest pool budget
MaxCostStep == 1      \* number of cost steps of a free row
DifficultySpan == 2   \* difficulties are drawn from 1-span .. 5+span
MaxPointsDrop == 9    \* round points are lowered by 0..MaxPointsDrop

----------------------------------------------------------------------------
(* Input tables *)

\* a row of the players table; ep holds the per-round columns the table has
\* (round name -> value in 1/38ths), none in the tables of the tests;
\* total_points_isna tells a missing (NaN) total_points value
Player(id, et, team, cost, tp) ==
    [id |-> id, element_type |-> et, team |-> team, now_cost |-> cost,
     total_points |-> tp, total_points_isna |-> FALSE, ep |-> << >>]

\* test_squad_selection.py: the 22 rows of create_minimal_test_dataset
create_minimal_test_dataset ==
    [i \in 1..4 |-> Player(i, 1, ((i - 1) % 4) + 1, 40 + (i - 1) * 2,
                           100 + (i - 1) * 10)]
    \o [i \in 1..8 |-> Player(i + 4, 2, ((i - 1) % 4) + 1,
                              40 + ((i - 1) % 3) * 2, 80 + (i - 1) * 5)]
    \o [i \in 1..6 |-> Player(i + 12, 3, ((i - 1) % 3) + 1, 50 + (i - 1) * 5,
                              120 + (i - 1) * 15)]
    \o [i \in 1..4 |-> Player(i + 18, 4, ((i - 1) % 2) + 1, 60 + (i - 1) * 10,
                              150 + (i - 1) * 20)]

\* twice the median of the total_points column (pandas: the mean of the two
\* middle values when the number of rows is even)
TwiceMedianPoints(rows) ==
    LET n == Len(rows)
        tp(i) == rows[i].total_points
        \* rank of row i in ascending order, ties by row order
        rank(i) == Cardinality({j \in 1..n : tp(j) < tp(i) \/ (tp(j) = tp(i) /\ j <= i)})
        kth(k) == tp(CHOOSE i \in 1..n : rank(i) = k)
    IN IF n % 2 = 0 THEN kth(n \div 2) + kth(n \div 2 + 1)
       ELSE 2 * kth((n + 1) \div 2)

\* test_case_3_club_constraint: rows above the median move to team 1
club_constraint_dataset ==
    LET rows == create_minimal_test_dataset
        med2 == TwiceMedianPoints(rows)
    IN [i \in 1..Len(rows) |->
          IF 2 * rows[i].total_points > med2
          THEN [rows[i] EXCEPT !.team = 1] ELSE rows[i]]

\* a 19-row pool over six clubs; rows 9 (a defender) and 18 (a forward) are free
FreeTeams == {1, 6}
FreeCosts == {40 + 20 * k : k \in 0..MaxCostStep}
FreePoints == {80, 190}
FreeRows == [team : FreeTeams, cost : FreeCosts, tp : FreePoints]

six_club_pool(d, f) ==
    << Player(1, 1, 1, 45, 120), Player(2, 1, 2, 40, 100), Player(3, 1, 3, 40, 80),
       Player(4, 2, 1, 45, 110), Player(5, 2, 2, 40, 90), Player(6, 2, 3, 50, 130),
       Player(7, 2, 4, 40, 80), Player(8, 2, 5, 45, 100),
       Player(9, 2, d.team, d.cost, d.tp),
       Player(10, 3, 3, 60, 150), Player(11, 3, 4, 55, 140),
       Player(12, 3, 5, 70, 180), Player(13, 3, 6, 50, 120),
       Player(14, 3, 6, 65, 160),
       Player(15, 4, 1, 75, 200), Player(16, 4, 2, 60, 150),
       Player(17, 4, 6, 80, 170),
       Player(18, 4, f.team, f.cost, f.tp),
       Player(19, 5, 2, 10, 300) >>

\* test_parameter_validation: the second row takes the first row's id
with_duplicate_id(rows) == [rows EXCEPT ![2].id = rows[1].id]

AllColumns == {"id", "element_type", "team", "now_cost", "total_points"}

Fixture(ev, h, a, hd, ad) ==
    [event |-> ev, team_h |-> h, team_a |-> a, team_h_difficulty |-> hd,
     team_a_difficulty |-> ad]

FixtureColumns == {"event", "team_h", "team_a", "team_h_difficulty",
                   "team_a_difficulty"}

\* test_squad_selection.py: create_fixtures_dummy
create_fixtures_dummy ==
    [cols |-> FixtureColumns,
     rows |-> << Fixture(1, 1, 2, 3, 2), Fixture(2, 2, 3, 2, 4) >>]

empty_fixtures == [cols |-> {}, rows |-> <<>>]

----------------------------------------------------------------------------
(* _validate_inputs *)

\* missing_cols = [col for col in required_cols if col not in players.columns]
missing_cols(cols) ==
    LET present(c) == c \in cols IN
    SelectSeq(required_cols, LAMBDA c : ~present(c))

\* players['id'].duplicated().any()
has_duplicated_ids(rows) ==
    \E i, j \in DOMAIN rows : i < j /\ rows[i].id = rows[j].id

\* mutant: the last round is refused
invalid_gameweek_range_strict(gs, ge) ==
    gs < 1 \/ ge < gs \/ ge >= LastGameweek

\* gw_start < 1 or gw_end < gw_start or gw_end > 38
invalid_gameweek_range(gs, ge) ==
    gs < 1 \/ ge < gs \/ ge > LastGameweek

\* budget_million <= 0
budget_not_positive(budget) == budget <= 0

KeyErrorMissing(missing) ==
    [kind |-> "KeyError", msg |-> "Missing required columns", cols |-> missing]
DuplicateIdsError ==
    [kind |-> "ValueError", msg |-> "Duplicate player IDs found", cols |-> <<>>]
GameweekRangeError ==
    [kind |-> "ValueError", msg |-> "Invalid gameweek range", cols |-> <<>>]
BudgetError ==
    [kind |-> "ValueError", msg |-> "Budget must be positive", cols |-> <<>>]
UnknownSolverError ==
    [kind |-> "ValueError", msg |-> "Unknown solver", cols |-> <<>>]
MipInfeasibleError ==
    [kind |-> "InfeasibleError", msg |-> "No feasible solution found", cols |-> <<>>]
MipStatusError ==
    [kind |-> "RuntimeError", msg |-> "Solver failed with status", cols |-> <<>>]
MipCountError ==
    [kind |-> "RuntimeError", msg |-> "Invalid solution", cols |-> <<>>]
GaPositionError ==
    [kind |-> "InfeasibleError", msg |-> "Cannot fill position", cols |-> <<>>]
GaCountError ==
    [kind |-> "InfeasibleError", msg |-> "Could not select exactly 15 players",
     cols |-> <<>>]

\* mutant: the duplicate check runs before the column check
validate_inputs_ids_first(rows, cols, gs, ge, budget) ==
    IF has_duplicated_ids(rows) THEN DuplicateIdsError
    ELSE IF missing_cols(cols) # <<>> THEN KeyErrorMissing(missing_cols(cols))
    ELSE IF invalid_gameweek_range(gs, ge) THEN GameweekRangeError
    ELSE IF budget_not_positive(budget) THEN BudgetError
    ELSE NoError

\* mutant: the range checks run before the duplicate check
validate_inputs_range_first(rows, cols, gs, ge, budget) ==
    IF missing_cols(cols) # <<>> THEN KeyErrorMissing(missing_cols(cols))
    ELSE IF invalid_gameweek_range(gs, ge) THEN GameweekRangeError
    ELSE IF budget_not_positive(budget) THEN BudgetError
    ELSE IF has_duplicated_ids(rows) THEN DuplicateIdsError
    ELSE NoError

\* the exception _validate_inputs raises, NoError when it returns
validate_inputs(rows, cols, gs, ge, budget) ==
    IF missing_cols(cols) # <<>> THEN KeyErrorMissing(missing_cols(cols))
    ELSE IF has_duplicated_ids(rows) THEN DuplicateIdsError
    ELSE IF invalid_gameweek_range(gs, ge) THEN GameweekRangeError
    ELSE IF budget_not_positive(budget) THEN BudgetError
    ELSE NoError

----------------------------------------------------------------------------
(* _calculate_fixture_multiplier, _incorporate_fixture_difficulty *)

\* mutant: the conversion starts from 1.5
difficulty_multiplier_from15(difficulty) == Max(6, 15 - 2 * difficulty)

\* max(0.6, 1.6 - difficulty * 0.2), in tenths
difficulty_multiplier(difficulty) == Max(6, 16 - 2 * difficulty)

\* fixture.get(col, default)
fixture_get(fx, fixture, col, default) ==
    IF col \in fx.cols THEN fixture[col] ELSE default

RECURSIVE team_multipliers_first_wins(_, _, _)
\* mutant: a club keeps the first value set for it
team_multipliers_first_wins(fx, gw_fixtures, k) ==
    IF k = 0 THEN << >>
    ELSE LET prev == team_multipliers_first_wins(fx, gw_fixtures, k - 1)
             fixture == gw_fixtures[k]
             home_multiplier == difficulty_multiplier(
                 fixture_get(fx, fixture, "team_h_difficulty", DefaultDifficulty))
             away_multiplier == difficulty_multiplier(
                 fixture_get(fx, fixture, "team_a_difficulty", DefaultDifficulty))
             with_home ==
                 IF "team_h" \in fx.cols
                 THEN [t \in DOMAIN prev \cup {fixture.team_h} |->
                         IF t \in DOMAIN prev THEN prev[t] ELSE home_multiplier]
                 ELSE prev
         IN IF "team_a" \in fx.cols
            THEN [t \in DOMAIN with_home \cup {fixture.team_a} |->
                    IF t \in DOMAIN with_home THEN with_home[t] ELSE away_multiplier]
            ELSE with_home

RECURSIVE team_multipliers(_, _, _)
\* the dict team_multipliers after the first k fixtures of the round
team_multipliers(fx, gw_fixtures, k) ==
    IF k = 0 THEN << >>
    ELSE LET prev == team_multipliers(fx, gw_fixtures, k - 1)
             fixture == gw_fixtures[k]
             home_multiplier == difficulty_multiplier(
                 fixture_get(fx, fixture, "team_h_difficulty", DefaultDifficulty))
             away_multiplier == difficulty_multiplier(
                 fixture_get(fx, fixture, "team_a_difficulty", DefaultDifficulty))
             with_home ==
                 IF "team_h" \in fx.cols
                 THEN [t \in DOMAIN prev \cup {fixture.team_h} |->
                         IF t = fixture.team_h THEN home_multiplier ELSE prev[t]]
                 ELSE prev
         IN IF "team_a" \in fx.cols
            THEN [t \in DOMAIN with_home \cup {fixture.team_a} |->
                    IF t = fixture.team_a THEN away_multiplier ELSE with_home[t]]
            ELSE with_home

\* mutant: the fixtures of every round are used
calculate_fixture_multiplier_any_round(rows, fx, gameweek) ==
    IF fx.rows = <<>> \/ "event" \notin fx.cols
    THEN [i \in DOMAIN rows |-> 10]
    ELSE LET tm == team_multipliers(fx, fx.rows, Len(fx.rows))
         IN [i \in DOMAIN rows |->
               IF rows[i].team \in DOMAIN tm THEN tm[rows[i].team] ELSE 10]

\* one multiplier (in tenths) per row of the players table
calculate_fixture_multiplier(rows, fx, gameweek) ==
    IF fx.rows = <<>> \/ "event" \notin fx.cols
    THEN [i \in DOMAIN rows |-> 10]
    ELSE LET gw_fixtures == SelectSeq(fx.rows, LAMBDA f : f.event = gameweek)
         IN IF gw_fixtures = <<>>
            THEN [i \in DOMAIN rows |-> 10]
            ELSE LET tm == team_multipliers(fx, gw_fixtures, Len(gw_fixtures))
                 IN [i \in DOMAIN rows |->
                       IF rows[i].team \in DOMAIN tm THEN tm[rows[i].team] ELSE 10]

\* mutant: a missing total_points value counts as nothing
fillna_zero(row) == IF row.total_points_isna THEN 0 ELSE row.total_points

\* players_work['total_points'].fillna(50)
fillna(row) == IF row.total_points_isna THEN FillPoints ELSE row.total_points

\* (total_points.fillna(50) / 38).clip(lower=0.5), in 1/38ths
base_points_per_gw(row) == Max(MinBasePoints38, fillna(row))

\* expected_points_cols, None replaced by
\* [f"ep_gw{gw}" for gw in range(gw_start, gw_end + 1)]
named_cols(epc, gs, ge) ==
    IF epc.given THEN epc.names ELSE [k \in 1..(ge - gs + 1) |-> gs + k - 1]

\* the per-round columns the players table has
ep_columns(rows) == IF rows = << >> THEN {} ELSE DOMAIN rows[1].ep

\* all(col in players_work.columns for col in expected_points_cols)
all_cols_exist(rows, names) ==
    \A k \in DOMAIN names : names[k] \in ep_columns(rows)

KeyErrorTotalPoints ==
    [kind |-> "KeyError", msg |-> "total_points", cols |-> << >>]

\* the exception _incorporate_fixture_difficulty raises: the synthesized
\* baseline reads the total_points column
incorporate_error(rows, cols, names) ==
    IF ~all_cols_exist(rows, names) /\ "total_points" \notin cols
    THEN KeyErrorTotalPoints ELSE NoError

\* mutant: the k-th named column is scaled by the multiplier of its own name
incorporate_fixture_difficulty_by_name(rows, fx, gs, names) ==
    LET exist == all_cols_exist(rows, names)
    IN [k \in DOMAIN names |->
          LET fixture_multipliers == calculate_fixture_multiplier(rows, fx, names[k])
          IN [i \in DOMAIN rows |->
                (IF exist THEN rows[i].ep[names[k]] ELSE base_points_per_gw(rows[i]))
                    * fixture_multipliers[i]]]

\* the named columns of the augmented table, in 1/380ths: the k-th one is the
\* existing column (when all exist) or the base points, times the multipliers
\* of round gw_start + k - 1 (names are distinct)
incorporate_fixture_difficulty(rows, fx, gs, names) ==
    LET exist == all_cols_exist(rows, names)
    IN [k \in DOMAIN names |->
          LET gw == gs + k - 1
              fixture_multipliers == calculate_fixture_multiplier(rows, fx, gw)
          IN [i \in DOMAIN rows |->
                (IF exist THEN rows[i].ep[names[k]] ELSE base_points_per_gw(rows[i]))
                    * fixture_multipliers[i]]]

\* mutant: the last named column is left out of the sum
window_sum_open(rows, work) ==
    [i \in DOMAIN rows |->
        SumOver(DOMAIN work \ {Len(work)}, [k \in DOMAIN work |-> work[k][i]])]

\* players_work[expected_points_cols].sum(axis=1)
window_sum(rows, work) ==
    [i \in DOMAIN rows |-> SumOver(DOMAIN work, [k \in DOMAIN work |-> work[k][i]])]

----------------------------------------------------------------------------
(* Shared by both solvers *)

\* budget_units = int(budget_million * 10): truncation towards zero
budget_units(budget) ==
    IF budget >= 0 THEN (budget * UnitsPerMillion) \div 100
    ELSE -(((-budget) * UnitsPerMillion) \div 100)

\* players[players['element_type'] == element_type], as row indices
rows_of_type(rows, et) == {i \in DOMAIN rows : rows[i].element_type = et}

cost_column(rows) == [i \in DOMAIN rows |-> rows[i].now_cost]

\* squad_df[col].sum() over the rows S
total_of(S, column) == SumOver(S, column)

\* the rows of S that play for club
club_rows(rows, S, club) == {i \in S : rows[i].team = club}

\* squad_df['team'].unique(): the clubs of the squad, in order of appearance
squad_teams(rows, squad) ==
    LET first(k) == \A j \in 1..(k - 1) : rows[squad[j]].team # rows[squad[k]].team
        ks == SelectSeq([k \in DOMAIN squad |-> k], first)
    IN [n \in DOMAIN ks |-> rows[squad[ks[n]]].team]

FixturesInfoKeyError == [kind |-> "KeyError", msg |-> "False", cols |-> << >>]

\* the exception _get_fixtures_info raises: on a table without the column,
\* fixtures.get(column, 0) == x is a plain bool, and indexing the table with
\* it looks up a column of that name
get_fixtures_info_error(squad, fx, gs, ge) ==
    IF /\ fx.rows # << >>
       /\ squad # << >>
       /\ gs <= ge
       /\ ~({"event", "team_h", "team_a"} \subseteq fx.cols)
    THEN FixturesInfoKeyError ELSE NoError

\* an opponent: a club, or 'Unknown'
Opponent(club) == [known |-> TRUE, team |-> club]
UnknownOpponent == [known |-> FALSE, team |-> 0]

\* mutant: the away fixture is looked up before the home fixture
team_fixture_away_first(fx, team_id, gw) ==
    LET gw_fixtures == SelectSeq(fx.rows, LAMBDA f : f.event = gw)
        home_fixture == SelectSeq(gw_fixtures, LAMBDA f : f.team_h = team_id)
        away_fixture == SelectSeq(gw_fixtures, LAMBDA f : f.team_a = team_id)
    IN IF away_fixture # << >>
       THEN [gameweek |-> gw, opponent |-> Opponent(away_fixture[1].team_h),
             venue |-> "A",
             difficulty |-> fixture_get(fx, away_fixture[1], "team_a_difficulty",
                                        DefaultDifficulty)]
       ELSE IF home_fixture # << >>
       THEN [gameweek |-> gw, opponent |-> Opponent(home_fixture[1].team_a),
             venue |-> "H",
             difficulty |-> fixture_get(fx, home_fixture[1], "team_h_difficulty",
                                        DefaultDifficulty)]
       ELSE [gameweek |-> gw, opponent |-> UnknownOpponent, venue |-> "?",
             difficulty |-> DefaultDifficulty]

\* the descriptor of the club's fixture in round gw (the table has the round
\* and club columns)
team_fixture(fx, team_id, gw) ==
    LET gw_fixtures == SelectSeq(fx.rows, LAMBDA f : f.event = gw)
        home_fixture == SelectSeq(gw_fixtures, LAMBDA f : f.team_h = team_id)
        away_fixture == SelectSeq(gw_fixtures, LAMBDA f : f.team_a = team_id)
    IN IF home_fixture # << >>
       THEN [gameweek |-> gw, opponent |-> Opponent(home_fixture[1].team_a),
             venue |-> "H",
             difficulty |-> fixture_get(fx, home_fixture[1], "team_h_difficulty",
                                        DefaultDifficulty)]
       ELSE IF away_fixture # << >>
       THEN [gameweek |-> gw, opponent |-> Opponent(away_fixture[1].team_h),
             venue |-> "A",
             difficulty |-> fixture_get(fx, away_fixture[1], "team_a_difficulty",
                                        DefaultDifficulty)]
       ELSE [gameweek |-> gw, opponent |-> UnknownOpponent, venue |-> "?",
             difficulty |-> DefaultDifficulty]

\* the dict _get_fixtures_info returns; avg_difficulty is total_difficulty
\* over the number of descriptors
get_fixtures_info(rows, squad, fx, gs, ge) ==
    LET gameweeks == [k \in 1..(ge - gs + 1) |-> gs + k - 1]
        teams == IF fx.rows = << >> THEN {} ELSE Range(squad_teams(rows, squad))
        team_fixtures == [t \in teams |->
                            [k \in DOMAIN gameweeks |-> team_fixture(fx, t, gameweeks[k])]]
    IN [gameweeks |-> gameweeks,
        team_fixtures |-> team_fixtures,
        difficulty_summary |->
            [t \in teams |->
                [total_difficulty |->
                     SumOver(DOMAIN gameweeks,
                             [k \in DOMAIN gameweeks |-> team_fixtures[t][k].difficulty]),
                 descriptors |-> Len(gameweeks),
                 fixtures |-> team_fixtures[t]]]]

\* mutant: the summed cost is reported in tenths of a million
total_cost_undivided(cost_sum) == cost_sum * 100

\* squad_df['now_cost'].sum() / 10.0, in hundredths of a million
total_cost_millions(cost_sum) == (cost_sum * 100) \div UnitsPerMillion

\* the SquadResult built from the squad (row indices in squad_df order)
build_result(rows, exp, squad, solver_name, status, objective_value, fx, gs, ge) ==
    LET S == Range(squad)
        position(i) ==
            IF rows[i].element_type \in DOMAIN position_mapping
            THEN position_mapping[rows[i].element_type] ELSE "NaN"
    IN [kind |-> "SquadResult",
        squad |-> squad,
        total_cost |-> total_cost_millions(total_of(S, cost_column(rows))),
        expected_points |-> total_of(S, exp),
        per_position |->
            [pos \in Range(position_mapping) |->
                LET keep(i) == position(i) = pos IN
                [k \in DOMAIN SelectSeq(squad, keep) |->
                    rows[SelectSeq(squad, keep)[k]].id]],
        club_counts |->
            [club \in {rows[i].team : i \in S} |->
                Cardinality({k \in DOMAIN squad : rows[squad[k]].team = club})],
        objective_details |->
            [solver |-> solver_name, status |-> status,
             objective_value |-> objective_value],
        fixtures_info |-> get_fixtures_info(rows, squad, fx, gs, ge)]

----------------------------------------------------------------------------
(* _solve_with_mip: the 0/1 program and its solution *)

\* the position constraints: per class, exactly position_limits rows selected;
\* rows of no class are free as far as these constraints go
mip_position_constraints(rows) ==
    {G \cup D \cup M \cup F \cup O :
        G \in KSubsets(rows_of_type(rows, 1), position_limits(position_mapping[1])),
        D \in KSubsets(rows_of_type(rows, 2), position_limits(position_mapping[2])),
        M \in KSubsets(rows_of_type(rows, 3), position_limits(position_mapping[3])),
        F \in KSubsets(rows_of_type(rows, 4), position_limits(position_mapping[4])),
        O \in SUBSET {i \in DOMAIN rows : rows[i].element_type \notin 1..4}}

\* lpSum(player_vars) == 15
mip_total_constraint(S) == Cardinality(S) = SquadSize

\* lpSum(player_vars * now_cost) <= budget_units
mip_budget_constraint(rows, S, units) == total_of(S, cost_column(rows)) <= units

\* mutant: the club cap is off by one
mip_club_constraint_cap4(rows, S) ==
    \A club \in {rows[i].team : i \in DOMAIN rows} :
        Cardinality({i \in S : rows[i].team = club}) <= MaxPerClub + 1

\* for every club: lpSum(player_vars of the club) <= 3
mip_club_constraint(rows, S) ==
    \A club \in {rows[i].team : i \in DOMAIN rows} :
        Cardinality(club_rows(rows, S, club)) <= MaxPerClub

\* the feasible region of the program
mip_feasible(rows, units) ==
    {S \in mip_position_constraints(rows) :
        /\ mip_total_constraint(S)
        /\ mip_club_constraint(rows, S)
        /\ mip_budget_constraint(rows, S, units)}

\* mutant: the program minimises its objective
mip_objective_minimised(exp, S) == -SumOver(S, exp)

\* the objective: lpSum(player_vars * exp_pts_window)
mip_objective(exp, S) == total_of(S, exp)

\* the optimal solutions of the program: prob.solve returns one of them
mip_optimal(rows, exp, units) ==
    LET valued == {<<mip_objective(exp, S), S>> : S \in mip_feasible(rows, units)}
        values == {p[1] : p \in valued}
        best == CHOOSE v \in values : \A w \in values : w <= v
    IN {p[2] : p \in {q \in valued : q[1] = best}}

\* mutant: an infeasible status is not told apart from the other failures
mip_status_error_unsorted(status) == MipStatusError

\* the exception raised for a terminal status other than Optimal
mip_status_error(status) ==
    IF status = "Infeasible" THEN MipInfeasibleError ELSE MipStatusError

----------------------------------------------------------------------------
(* _solve_with_ga: the greedy heuristic *)

\* sort_values(['value', 'exp_pts_window'], ascending=[False, False]): row i
\* comes before row j; value = exp_pts_window / now_cost, ties keep row order
\* (the values are compared over the common denominator, whose sign is sgn;
\* no cost of the pools is zero)
ga_before(rows, exp, i, j) ==
    LET sgn == IF rows[i].now_cost * rows[j].now_cost > 0 THEN 1 ELSE -1
        vi == exp[i] * rows[j].now_cost * sgn
        vj == exp[j] * rows[i].now_cost * sgn
    IN \/ vi > vj
       \/ vi = vj /\ exp[i] > exp[j]
       \/ vi = vj /\ exp[i] = exp[j] /\ i < j

\* position_players of a class, in first-pass order
sorted_position_players(rows, exp, et) ==
    LET P == rows_of_type(rows, et)
        rank(i) == 1 + Cardinality({j \in P : ga_before(rows, exp, j, i)})
    IN [k \in 1..Cardinality(P) |-> CHOOSE i \in P : rank(i) = k]

\* current_clubs.value_counts().get(player['team'], 0)
ga_club_count(rows, sel, team) ==
    Cardinality({k \in DOMAIN sel : rows[sel[k]].team = team})

\* mutant: the club check lets a fourth player in
ga_first_pass_takes_fourth(rows, sel, remaining, i) ==
    /\ rows[i].now_cost <= remaining
    /\ Cardinality({k \in DOMAIN sel : rows[sel[k]].team = rows[i].team}) <= MaxPerClub

\* the first pass takes the player
ga_first_pass_takes(rows, sel, remaining, i) ==
    /\ rows[i].now_cost <= remaining
    /\ ga_club_count(rows, sel, rows[i].team) < MaxPerClub

\* mutant: the second pass does not look at the budget
ga_second_pass_takes_any_cost(rows, sel, remaining, i) ==
    /\ rows[i].id \notin {rows[sel[k]].id : k \in DOMAIN sel}
    /\ ga_club_count(rows, sel, rows[i].team) < MaxPerClub

\* the second pass takes the player
ga_second_pass_takes(rows, sel, remaining, i) ==
    /\ rows[i].now_cost <= remaining
    /\ rows[i].id \notin {rows[sel[k]].id : k \in DOMAIN sel}
    /\ ga_club_count(rows, sel, rows[i].team) < MaxPerClub

----------------------------------------------------------------------------
(* Initial states: the arguments of one call of select_initial_squad *)

GwValues == 0..MaxGw \cup {LastGameweek, LastGameweek + 1}
Solvers == {"mip", "ga", "random"}
ValidationBudgets == {-1000, 0, 5, 8205}
PoolBudgets == {7905 + 100 * k : k \in 0..MaxBudgetStep} \cup {10000}
TestBudgets == {10000, 5000}
ValidationPool ==
    six_club_pool([team |-> 1, cost |-> 40, tp |-> 80],
                  [team |-> 1, cost |-> 40, tp |-> 190])

\* expected_points_cols=None
NoneGiven == [given |-> FALSE, names |-> << >>]

\* the variables of the calls that are not running
NoMultiplierCall == the_gameweek = 0 /\ multipliers = << >>
NoLineupCall ==
    /\ squad_df = << >>
    /\ captain_multiplier = 0
    /\ vice_captain_multiplier = 0
    /\ formation_idx = 0
    /\ best_so_far = [kind |-> "none"]
    /\ lineup = [kind |-> "none"]

InitLocals ==
    /\ pc = "call"
    /\ err = NoError
    /\ result = NoResult
    /\ exp_pts_window = << >>
    /\ players_work = << >>
    /\ NoMultiplierCall
    /\ NoLineupCall
    /\ selected_players = << >>
    /\ remaining_budget = 0
    /\ element_type = 0
    /\ count = 0
    /\ position_players = << >>
    /\ idx = 0
    /\ cheapest_todo = {}

\* any combination of missing required columns, duplicate ids, window, budget
InitValidation ==
    /\ players \in {ValidationPool, with_duplicate_id(ValidationPool)}
    /\ columns \in {AllColumns \ missing : missing \in SUBSET Range(required_cols)}
    /\ fixtures = create_fixtures_dummy
    /\ gw_start \in GwValues
    /\ gw_end \in GwValues
    /\ budget_million \in ValidationBudgets
    /\ solver \in Solvers
    /\ expected_points_cols = NoneGiven

\* valid calls on the six-club pools, default window
InitPools ==
    /\ players \in {six_club_pool(d, f) : d \in FreeRows, f \in FreeRows}
    /\ columns = AllColumns
    /\ fixtures \in {empty_fixtures, create_fixtures_dummy}
    /\ gw_start = 1
    /\ gw_end = 4
    /\ budget_million \in PoolBudgets
    /\ solver \in {"mip", "ga"}
    /\ expected_points_cols = NoneGiven

\* the calls of test_squad_selection.py on its minimal dataset
InitTests ==
    /\ players \in {create_minimal_test_dataset, club_constraint_dataset}
    /\ columns = AllColumns
    /\ fixtures = create_fixtures_dummy
    /\ gw_start = 1
    /\ gw_end = 4
    /\ budget_million \in TestBudgets
    /\ solver \in {"mip", "ga"}
    /\ expected_points_cols = NoneGiven

\* the players table with per-round columns for the rounds in names: the
\* first round's value (1/38ths) is total_points, the later rounds' values
\* fall as total_points rises and reach zero and below
with_ep_columns(rows, names) ==
    [i \in DOMAIN rows |->
        [rows[i] EXCEPT !.ep = [c \in names |->
            IF c = 1 THEN rows[i].total_points
            ELSE 190 - c * rows[i].total_points]]]

Given(names) == [given |-> TRUE, names |-> names]

\* the pool of the builder calls: the last player's total is below zero and
\* the third goalkeeper's total is missing
builder_pool ==
    [ValidationPool EXCEPT ![19].total_points = -38,
                           ![3].total_points = 0, ![3].total_points_isna = TRUE]

\* fixture tables of the builder calls: none, the dummy of the tests, one
\* with easy and hard fixtures, one with two fixtures of a club in a round,
\* and tables lacking columns (the one with only the round column is the
\* events table load_fpl_data falls back to)
informative_fixtures ==
    [cols |-> FixtureColumns,
     rows |-> << Fixture(1, 1, 2, 1, 5), Fixture(1, 3, 4, 4, 2),
                 Fixture(2, 6, 5, 2, 5), Fixture(3, 2, 6, 1, 4) >>]

\* clubs 1 and 2 meet twice in round 1, each once at home and once away
double_fixtures ==
    [informative_fixtures EXCEPT !.rows = @ \o << Fixture(1, 2, 1, 3, 2) >>]

BuilderFixtures ==
    { empty_fixtures, create_fixtures_dummy, informative_fixtures, double_fixtures,
      [informative_fixtures EXCEPT !.cols = {"event", "team_h", "team_a"}],
      [informative_fixtures EXCEPT !.cols = FixtureColumns \ {"event"}],
      [informative_fixtures EXCEPT !.cols = {"event"}],
      [informative_fixtures EXCEPT !.cols = FixtureColumns \ {"team_a"}] }

\* valid calls with a players table that may have per-round columns and may
\* lack total_points, any of the fixture tables, and expected_points_cols
\* None or a list of distinct names
InitBuilder ==
    /\ players \in {with_ep_columns(builder_pool, names) :
                       names \in {{}, {1}, {1, 2}, {1, 2, 3}}}
    /\ columns \in {AllColumns, AllColumns \ {"total_points"}}
    /\ fixtures \in BuilderFixtures
    /\ gw_start = 1
    /\ gw_end = 2
    /\ budget_million = 10000
    /\ solver \in {"mip", "ga"}
    /\ expected_points_cols \in
         {NoneGiven, Given(<<2, 1>>), Given(<<1>>), Given(<<1, 2, 3>>)}

\* a pool with a goalkeeper of negative cost and a budget below the cost of
\* the other goalkeepers (_validate_inputs accepts any cost)
negative_cost_pool == [ValidationPool EXCEPT ![3].now_cost = -50]

InitNegativeCost ==
    /\ players = negative_cost_pool
    /\ columns = AllColumns
    /\ fixtures \in {empty_fixtures, create_fixtures_dummy}
    /\ gw_start = 1
    /\ gw_end \in 1..4
    /\ budget_million \in {390, 10000}
    /\ solver \in {"mip", "ga"}
    /\ expected_points_cols = NoneGiven

\* the players of 1, 3 or 4 of the six clubs, at a usual and at a huge budget
few_club_pool(C) == SelectSeq(ValidationPool, LAMBDA r : r.team \in C)

InitFewClubs ==
    /\ players \in {few_club_pool(C) :
                       C \in {D \in SUBSET (1..6) : Cardinality(D) \in {1, 3, 4}}}
    /\ columns = AllColumns
    /\ fixtures = empty_fixtures
    /\ gw_start = 1
    /\ gw_end = 4
    /\ budget_million \in {10000, 100000}
    /\ solver \in {"mip", "ga"}
    /\ expected_points_cols = NoneGiven

Init ==
    InitLocals /\ (InitValidation \/ InitPools \/ InitTests \/ InitBuilder
                     \/ InitNegativeCost \/ InitFewClubs)

----------------------------------------------------------------------------
(* select_initial_squad, step by step *)

\* Step 1: _validate_inputs
Validate ==
    /\ pc = "call"
    /\ err' = validate_inputs(players, columns, gw_start, gw_end, budget_million)
    /\ pc' = IF err' = NoError THEN "validated" ELSE "raised"
    /\ UNCHANGED <<input_vars, other_calls, built_vars, result, ga_vars>>

\* the arguments of select_initial_squad other than the players table
call_args == <<columns, fixtures, gw_start, gw_end, budget_million, solver,
               expected_points_cols>>

\* mutant: the named columns are written into the caller's table
players_written_in_place(rows, names, work) ==
    [i \in DOMAIN rows |->
        [rows[i] EXCEPT !.ep =
            [c \in DOMAIN rows[i].ep \cup Range(names) |->
                IF \E k \in DOMAIN names : names[k] = c
                THEN work[CHOOSE k \in DOMAIN names : names[k] = c][i]
                ELSE rows[i].ep[c]]]]

\* the caller's players table after step 2: the columns are written into
\* players.copy(), the caller's table keeps its columns and values
players_after_copy(rows, names, work) == rows

\* Step 2: the per-round columns and exp_pts_window
BuildExpectedPoints ==
    /\ pc = "validated"
    /\ LET names == named_cols(expected_points_cols, gw_start, gw_end)
           raised == incorporate_error(players, columns, names)
       IN IF raised # NoError
          THEN /\ err' = raised
               /\ pc' = "raised"
               /\ UNCHANGED <<built_vars, players>>
          ELSE /\ players_work' =
                     incorporate_fixture_difficulty(players, fixtures, gw_start, names)
               /\ exp_pts_window' = window_sum(players, players_work')
               /\ players' = players_after_copy(players, names, players_work')
               /\ pc' = "built"
               /\ UNCHANGED err
    /\ UNCHANGED <<call_args, other_calls, result, ga_vars>>

\* the terminal status of prob.solve
mip_status(rows, units) ==
    IF mip_feasible(rows, units) = {} THEN "Infeasible" ELSE "Optimal"

\* Step 3, solver "mip": _solve_with_mip
SolveMip ==
    /\ pc = "built"
    /\ solver = "mip"
    /\ LET units == budget_units(budget_million)
           status == mip_status(players, units)
       IN IF status # "Optimal"
          THEN /\ err' = mip_status_error(status)
               /\ pc' = "raised"
               /\ UNCHANGED result
          ELSE \E S \in mip_optimal(players, exp_pts_window, units) :
                 IF Cardinality(S) # SquadSize
                 THEN /\ err' = MipCountError
                      /\ pc' = "raised"
                      /\ UNCHANGED result
                 ELSE LET squad == SetToSortedSeq(S)
                          raised == get_fixtures_info_error(squad, fixtures,
                                                            gw_start, gw_end)
                      IN IF raised # NoError
                         THEN /\ err' = raised
                              /\ pc' = "raised"
                              /\ UNCHANGED result
                         ELSE /\ result' = build_result(players, exp_pts_window,
                                               squad, "mip", status,
                                               mip_objective(exp_pts_window, S),
                                               fixtures, gw_start, gw_end)
                              /\ pc' = "done"
                              /\ UNCHANGED err
    /\ UNCHANGED <<input_vars, other_calls, built_vars, ga_vars>>

\* Step 3, any other solver string
UnknownSolver ==
    /\ pc = "built"
    /\ solver \notin {"mip", "ga"}
    /\ err' = UnknownSolverError
    /\ pc' = "raised"
    /\ UNCHANGED <<input_vars, other_calls, built_vars, result, ga_vars>>

ga_limit(et) == position_limits(position_mapping[et])

\* the head of the loop over position_mapping for class et
GaEnterClass(et) ==
    /\ element_type' = et
    /\ position_players' = sorted_position_players(players, exp_pts_window, et)
    /\ count' = 0
    /\ idx' = 1
    /\ cheapest_todo' = {}
    /\ pc' = "ga_pass1"

\* the end of the loop body for the current class
GaLeaveClass ==
    IF element_type < Len(position_mapping)
    THEN GaEnterClass(element_type + 1)
    ELSE /\ pc' = "ga_built"
         /\ UNCHANGED <<element_type, position_players, count, idx, cheapest_todo>>

\* Step 3, solver "ga": _solve_with_ga up to the first class
GaStart ==
    /\ pc = "built"
    /\ solver = "ga"
    /\ selected_players' = << >>
    /\ remaining_budget' = budget_units(budget_million)
    /\ GaEnterClass(1)
    /\ UNCHANGED <<input_vars, other_calls, built_vars, err, result>>

\* one iteration of the first pass
GaFirstPassStep ==
    /\ pc = "ga_pass1"
    /\ idx <= Len(position_players)
    /\ count < ga_limit(element_type)
    /\ LET i == position_players[idx]
       IN IF ga_first_pass_takes(players, selected_players, remaining_budget, i)
          THEN /\ selected_players' = Append(selected_players, i)
               /\ remaining_budget' = remaining_budget - players[i].now_cost
               /\ count' = count + 1
          ELSE UNCHANGED <<selected_players, remaining_budget, count>>
    /\ idx' = idx + 1
    /\ UNCHANGED <<input_vars, other_calls, built_vars, err, result, pc, element_type,
                   position_players, cheapest_todo>>

\* the first pass ends: quota filled or candidates exhausted
GaFirstPassEnd ==
    /\ pc = "ga_pass1"
    /\ (idx > Len(position_players) \/ count >= ga_limit(element_type))
    /\ IF count < ga_limit(element_type)
       THEN /\ pc' = "ga_pass2"
            /\ cheapest_todo' = Range(position_players)
            /\ UNCHANGED <<element_type, position_players, count, idx>>
       ELSE GaLeaveClass
    /\ UNCHANGED <<input_vars, other_calls, built_vars, err, result, selected_players,
                   remaining_budget>>

\* one iteration of the second pass: sort_values('now_cost') fixes no order
\* among rows of equal cost
GaSecondPassStep ==
    /\ pc = "ga_pass2"
    /\ cheapest_todo # {}
    /\ count < ga_limit(element_type)
    /\ \E i \in cheapest_todo :
         /\ \A j \in cheapest_todo : players[i].now_cost <= players[j].now_cost
         /\ cheapest_todo' = cheapest_todo \ {i}
         /\ IF ga_second_pass_takes(players, selected_players, remaining_budget, i)
            THEN /\ selected_players' = Append(selected_players, i)
                 /\ remaining_budget' = remaining_budget - players[i].now_cost
                 /\ count' = count + 1
            ELSE UNCHANGED <<selected_players, remaining_budget, count>>
    /\ UNCHANGED <<input_vars, other_calls, built_vars, err, result, pc, element_type,
                   position_players, idx>>

\* the second pass ends; an unfilled quota raises InfeasibleError
GaSecondPassEnd ==
    /\ pc = "ga_pass2"
    /\ (cheapest_todo = {} \/ count >= ga_limit(element_type))
    /\ IF count < ga_limit(element_type)
       THEN /\ err' = GaPositionError
            /\ pc' = "raised"
            /\ UNCHANGED <<element_type, position_players, count, idx, cheapest_todo>>
       ELSE /\ GaLeaveClass
            /\ UNCHANGED err
    /\ UNCHANGED <<input_vars, other_calls, built_vars, result, selected_players,
                   remaining_budget>>

\* after the loop: the count check and the result
GaFinish ==
    /\ pc = "ga_built"
    /\ IF Len(selected_players) # SquadSize
       THEN /\ err' = GaCountError
            /\ pc' = "raised"
            /\ UNCHANGED result
       ELSE LET raised == get_fixtures_info_error(selected_players, fixtures,
                                                 gw_start, gw_end)
            IN IF raised # NoError
               THEN /\ err' = raised
                    /\ pc' = "raised"
                    /\ UNCHANGED result
               ELSE /\ result' = build_result(players, exp_pts_window,
                                     selected_players, "ga", "optimal",
                                     total_of(Range(selected_players), exp_pts_window),
                                     fixtures, gw_start, gw_end)
                    /\ pc' = "done"
                    /\ UNCHANGED err
    /\ UNCHANGED <<input_vars, other_calls, built_vars, ga_vars>>

Next ==
    \/ Validate
    \/ BuildExpectedPoints
    \/ SolveMip
    \/ UnknownSolver
    \/ GaStart
    \/ GaFirstPassStep
    \/ GaFirstPassEnd
    \/ GaSecondPassStep
    \/ GaSecondPassEnd
    \/ GaFinish

Spec == Init /\ [][Next]_vars

----------------------------------------------------------------------------
(* One call of _calculate_fixture_multiplier and one iteration of the loop
   of _incorporate_fixture_difficulty that uses it *)

Difficulties == (1 - DifficultySpan)..(5 + DifficultySpan)

\* five players of clubs 1, 2, 3, 4; 95 total points are 2.5 per round
multiplier_players ==
    << Player(1, 1, 1, 45, 95), Player(2, 2, 2, 40, 95), Player(3, 3, 3, 60, 190),
       Player(4, 4, 4, 75, 0), Player(5, 2, 1, 40, 38) >>

\* the fixture tables of the call: none, one or two rows; club 1 meets club 2
\* in round 1 at any difficulties; the second row is another fixture of the
\* round, a second fixture of club 1, a club against itself, or another round
SecondFixtures ==
    { Fixture(1, 3, 4, 2, 4), Fixture(1, 3, 1, 1, 5), Fixture(1, 2, 2, 0, 4),
      Fixture(2, 3, 1, 5, 1) }

MultiplierRows ==
    {<< >>}
    \cup {<<Fixture(1, 1, 2, hd, ad)>> : hd \in Difficulties, ad \in Difficulties}
    \cup {<<Fixture(1, 1, 2, hd, ad), f>> :
             hd \in Difficulties, ad \in Difficulties, f \in SecondFixtures}

\* the column sets of a fixture table: complete, or lacking the round column,
\* a club column, both club columns, or the difficulty columns
FixtureColumnSets ==
    { FixtureColumns, FixtureColumns \ {"event"}, FixtureColumns \ {"team_h"},
      FixtureColumns \ {"team_a"}, FixtureColumns \ {"team_h", "team_a"},
      FixtureColumns \ {"team_h_difficulty", "team_a_difficulty"} }

NoSquadCall ==
    /\ columns = AllColumns
    /\ gw_start = 0
    /\ gw_end = 0
    /\ budget_million = 0
    /\ solver = "none"
    /\ expected_points_cols = NoneGiven
    /\ err = NoError
    /\ result = NoResult
    /\ exp_pts_window = << >>
    /\ players_work = << >>
    /\ selected_players = << >>
    /\ remaining_budget = 0
    /\ element_type = 0
    /\ count = 0
    /\ position_players = << >>
    /\ idx = 0
    /\ cheapest_todo = {}

InitMultiplier ==
    /\ pc = "multiplier_call"
    /\ players = multiplier_players
    /\ fixtures \in [cols : FixtureColumnSets, rows : MultiplierRows]
    /\ the_gameweek \in 1..(MaxGw + 1)
    /\ multipliers = << >>
    /\ NoSquadCall
    /\ NoLineupCall

\* _calculate_fixture_multiplier(players_work, fixtures, gw)
CalculateFixtureMultiplier ==
    /\ pc = "multiplier_call"
    /\ multipliers' = calculate_fixture_multiplier(players, fixtures, the_gameweek)
    /\ pc' = "multiplier_returned"
    /\ UNCHANGED <<input_vars, lineup_vars, the_gameweek, err, built_vars, result,
                   ga_vars>>

\* players_work[col] = base_points_per_gw * fixture_multipliers
ApplyFixtureMultiplier ==
    /\ pc = "multiplier_returned"
    /\ players_work' =
         << [i \in DOMAIN players |-> base_points_per_gw(players[i]) * multipliers[i]] >>
    /\ pc' = "column_set"
    /\ UNCHANGED <<input_vars, lineup_vars, multiplier_vars, err, exp_pts_window,
                   result, ga_vars>>

NextMultiplier == CalculateFixtureMultiplier \/ ApplyFixtureMultiplier

SpecMultiplier == InitMultiplier /\ [][NextMultiplier]_vars

----------------------------------------------------------------------------
(* select_starting_eleven and _optimize_formation *)

\* (DEF, MID, FWD); GK is always 1
allowed_formations ==
    << <<3, 4, 3>>, <<3, 5, 2>>, <<4, 3, 3>>, <<4, 4, 2>>,
       <<4, 5, 1>>, <<5, 2, 3>>, <<5, 3, 2>>, <<5, 4, 1>> >>

\* best_points = -1
InitialBestPoints == -1

\* a row of squad_df: ep holds its ep_gw columns (round -> points)
SquadRow(id, position, ep, window) ==
    [id |-> id, position |-> position, ep |-> ep, exp_pts_window |-> window]

\* gw_col in squad_df.columns
has_gw_col(sq, gw) == gw \in DOMAIN sq[1].ep

\* len([col for col in squad_df.columns if col.startswith('ep_gw')])
ep_gw_count(sq) == Cardinality(DOMAIN sq[1].ep)

\* the unit of the values of gw_col is 1 / gw_col_scale points: the column
\* itself, or exp_pts_window divided by the number of ep_gw columns
gw_col_scale(sq, gw) == IF has_gw_col(sq, gw) THEN 1 ELSE ep_gw_count(sq)

\* squad_df[gw_col], in units of 1 / gw_col_scale points
gw_col_values(sq, gw) ==
    [i \in DOMAIN sq |->
        IF has_gw_col(sq, gw) THEN sq[i].ep[gw] ELSE sq[i].exp_pts_window]

\* squad_df[squad_df['position'] == position], as row indices
position_rows(sq, position) == {i \in DOMAIN sq : sq[i].position = position}

\* the exception of _optimize_formation: not enough players
not_enough_players(sq, def_count, mid_count, fwd_count) ==
    \/ Cardinality(position_rows(sq, "GK")) < 1
    \/ Cardinality(position_rows(sq, "DEF")) < def_count
    \/ Cardinality(position_rows(sq, "MID")) < mid_count
    \/ Cardinality(position_rows(sq, "FWD")) < fwd_count

\* mutant: the head of an ascending sort
head_of_sorted_ascending(S, col, n) ==
    {T \in KSubsets(S, n) : \A i \in T : \A j \in S \ T : col[i] <= col[j]}

\* sort_values(gw_col, ascending=False).head(n): the sets of n rows a
\* descending sort can put first (the sort fixes no order among equal values)
head_of_sorted(S, col, n) ==
    {T \in KSubsets(S, n) : \A i \in T : \A j \in S \ T : col[i] >= col[j]}

\* the rows of T in descending order of col, equal values in row order
sorted_descending(T, col) ==
    LET rank(i) == 1 + Cardinality({j \in T : col[j] > col[i]
                                              \/ (col[j] = col[i] /\ j < i)})
    IN [k \in 1..Cardinality(T) |-> CHOOSE i \in T : rank(i) = k]

\* mutant: the rows an ascending sort can put first
first_of_sorted_ascending(T, col) == {i \in T : \A j \in T : col[i] <= col[j]}

\* the rows a descending sort of T can put first
first_of_sorted(T, col) == {i \in T : \A j \in T : col[i] >= col[j]}

\* mutant: the vice-captain's weight is not applied
formation_points_no_vice(sq, col, xi, captain_id, vice_captain_id, cm, vm) ==
    SumOver(xi, [i \in DOMAIN sq |->
        IF sq[i].id = captain_id THEN col[i] * cm ELSE col[i] * 10])

\* total_points of a starting XI, in tenths of the unit of col
formation_points(sq, col, xi, captain_id, vice_captain_id, cm, vm) ==
    SumOver(xi, [i \in DOMAIN sq |->
        IF sq[i].id = captain_id THEN col[i] * cm
        ELSE IF sq[i].id = vice_captain_id THEN col[i] * vm
        ELSE col[i] * 10])

\* what _optimize_formation can return for a formation with enough players:
\* the captain is first and the vice-captain second in a descending sort of
\* the starting XI
optimize_formation(sq, col, def_count, mid_count, fwd_count, cm, vm) ==
    LET picks == {G \cup D \cup M \cup F :
                    G \in head_of_sorted(position_rows(sq, "GK"), col, 1),
                    D \in head_of_sorted(position_rows(sq, "DEF"), col, def_count),
                    M \in head_of_sorted(position_rows(sq, "MID"), col, mid_count),
                    F \in head_of_sorted(position_rows(sq, "FWD"), col, fwd_count)}
        by_position(xi, position) ==
            sorted_descending(xi \cap position_rows(sq, position), col)
        outcome(xi, c, v) ==
            [starting_xi |-> by_position(xi, "GK") \o by_position(xi, "DEF")
                               \o by_position(xi, "MID") \o by_position(xi, "FWD"),
             bench |-> sorted_descending(
                           {i \in DOMAIN sq : sq[i].id \notin {sq[j].id : j \in xi}},
                           col),
             points |-> formation_points(sq, col, xi, sq[c].id, sq[v].id, cm, vm),
             captain |-> sq[c].id,
             vice_captain |-> sq[v].id]
    IN UNION {UNION {{outcome(xi, c, v) : v \in first_of_sorted(xi \ {c}, col)} :
                        c \in first_of_sorted(xi, col)} : xi \in picks}

\* the round points of the 15 rows (2 GK, 5 DEF, 5 MID, 3 FWD) in round 1,
\* all different within a class, and in round 2, with equal values and with
\* 3-4-3 and 4-4-2 of the same total
round1_points == <<5, 4, 6, 5, 4, 3, 2, 7, 6, 5, 3, 1, 8, 4, 2>>
round2_points == <<3, 3, 4, 4, 2, 2, 1, 5, 5, 3, 3, 0, 6, 6, 2>>

\* position labels of the 15 rows: the squad of select_initial_squad, and
\* squads of another origin with 2 MID, with 1 FWD, and without GK ("NaN"
\* is the label of a row of no class)
squad_positions ==
    [i \in 1..15 |-> IF i <= 2 THEN "GK" ELSE IF i <= 7 THEN "DEF"
                     ELSE IF i <= 12 THEN "MID" ELSE "FWD"]

LineupPositions ==
    { squad_positions,
      [squad_positions EXCEPT ![10] = "NaN", ![11] = "NaN", ![12] = "NaN"],
      [squad_positions EXCEPT ![14] = "NaN", ![15] = "NaN"],
      [squad_positions EXCEPT ![1] = "NaN", ![2] = "NaN"] }

\* a squad table with columns ep_gw1 and ep_gw2, every value lowered by drop
lineup_squad(positions, drop) ==
    [i \in 1..15 |->
        SquadRow(100 + i, positions[i],
                 <<round1_points[i] - drop, round2_points[i] - drop>>,
                 round1_points[i] + round2_points[i] - 2 * drop)]

InitLineup ==
    /\ pc = "lineup_call"
    /\ squad_df \in {lineup_squad(positions, drop) :
                        positions \in LineupPositions, drop \in 0..MaxPointsDrop}
    /\ the_gameweek \in 1..(MaxGw + 1)
    /\ captain_multiplier \in {20, 15, 5}
    /\ vice_captain_multiplier \in {10, 20}
    /\ formation_idx = 0
    /\ best_so_far = [kind |-> "none"]
    /\ lineup = [kind |-> "none"]
    /\ players = << >>
    /\ fixtures = empty_fixtures
    /\ multipliers = << >>
    /\ NoSquadCall

NoFormationError ==
    [kind |-> "ValueError", msg |-> "No valid formation possible with current squad",
     cols |-> << >>]

lineup_frame == <<input_vars, multiplier_vars, built_vars, result, ga_vars, squad_df,
                  captain_multiplier, vice_captain_multiplier>>

\* mutant: the fallback round column is written into the caller's squad table
squad_df_written_in_place(sq, gw) ==
    IF has_gw_col(sq, gw) THEN sq
    ELSE [i \in DOMAIN sq |->
            [sq[i] EXCEPT !.ep = [c \in DOMAIN sq[i].ep \cup {gw} |->
                IF c = gw THEN sq[i].exp_pts_window ELSE sq[i].ep[c]]]]

\* the squad table of the SquadResult after the call: gw_col is written into
\* squad_result.squad_df.copy()
squad_df_after_copy(sq, gw) == sq

\* what the lineup steps after the first leave alone
lineup_args == <<input_vars, multiplier_vars, built_vars, result, ga_vars,
                 captain_multiplier, vice_captain_multiplier>>

\* the copy of the squad table, gw_col, and the best_* variables; best_points
\* is kept in tenths of the unit of gw_col
LineupStart ==
    /\ pc = "lineup_call"
    /\ formation_idx' = 1
    /\ best_so_far' =
         [kind |-> "none",
          points |-> InitialBestPoints * 10 * gw_col_scale(squad_df, the_gameweek)]
    /\ squad_df' = squad_df_after_copy(squad_df, the_gameweek)
    /\ pc' = "lineup_loop"
    /\ UNCHANGED <<lineup_args, err, lineup>>

\* one iteration of the loop over allowed_formations, _optimize_formation
\* returning
TryFormation ==
    /\ pc = "lineup_loop"
    /\ formation_idx \in DOMAIN allowed_formations
    /\ LET f == allowed_formations[formation_idx]
       IN /\ ~not_enough_players(squad_df, f[1], f[2], f[3])
          /\ \E o \in optimize_formation(squad_df,
                           gw_col_values(squad_df, the_gameweek), f[1], f[2], f[3],
                           captain_multiplier, vice_captain_multiplier) :
                best_so_far' =
                    IF o.points > best_so_far.points
                    THEN [kind |-> "some", points |-> o.points, formation |-> f,
                          starting_xi |-> o.starting_xi, bench |-> o.bench,
                          captain |-> o.captain, vice_captain |-> o.vice_captain]
                    ELSE best_so_far
    /\ formation_idx' = formation_idx + 1
    /\ UNCHANGED <<lineup_frame, err, lineup, pc>>

\* one iteration of the loop, _optimize_formation raising ValueError
SkipFormation ==
    /\ pc = "lineup_loop"
    /\ formation_idx \in DOMAIN allowed_formations
    /\ LET f == allowed_formations[formation_idx]
       IN not_enough_players(squad_df, f[1], f[2], f[3])
    /\ formation_idx' = formation_idx + 1
    /\ UNCHANGED <<lineup_frame, err, lineup, pc, best_so_far>>

\* after the loop: best_formation is None
LineupRaise ==
    /\ pc = "lineup_loop"
    /\ formation_idx > Len(allowed_formations)
    /\ best_so_far.kind = "none"
    /\ err' = NoFormationError
    /\ pc' = "raised"
    /\ UNCHANGED <<lineup_frame, lineup, formation_idx, best_so_far>>

\* after the loop: the StartingElevenResult; formation holds the three counts
\* of the label "d-m-f"
LineupReturn ==
    /\ pc = "lineup_loop"
    /\ formation_idx > Len(allowed_formations)
    /\ best_so_far.kind # "none"
    /\ lineup' =
         [kind |-> "StartingElevenResult",
          starting_eleven |-> best_so_far.starting_xi,
          bench |-> best_so_far.bench,
          formation |-> best_so_far.formation,
          captain_id |-> best_so_far.captain,
          vice_captain_id |-> best_so_far.vice_captain,
          expected_points_gw1 |-> best_so_far.points,
          formation_breakdown |->
              [position \in Range(position_mapping) |->
                  CASE position = "GK" -> 1
                    [] position = "DEF" -> best_so_far.formation[1]
                    [] position = "MID" -> best_so_far.formation[2]
                    [] position = "FWD" -> best_so_far.formation[3]]]
    /\ pc' = "lineup_done"
    /\ UNCHANGED <<lineup_frame, err, formation_idx, best_so_far>>

NextLineup ==
    \/ LineupStart
    \/ TryFormation
    \/ SkipFormation
    \/ LineupRaise
    \/ LineupReturn

SpecLineup == InitLineup /\ [][NextLineup]_vars

----------------------------------------------------------------------------
(* Calls of either entry point *)

InitCalls == Init \/ InitLineup

NextCalls == Next \/ NextLineup

SpecCalls == InitCalls /\ [][NextCalls]_vars

----------------------------------------------------------------------------
(* Vocabulary of the properties, stated without the solvers' definitions *)

\* the four required columns are present
HasRequiredColumns == {"id", "element_type", "team", "now_cost"} \subseteq columns

\* no two rows share an id
UniqueIds == \A i, j \in DOMAIN players : players[i].id = players[j].id => i = j

\* the round window and the budget are in their domains
ValidRange == gw_start >= 1 /\ gw_end >= gw_start /\ gw_end <= 38 /\ budget_million > 0

\* the budget in tenths: budget_million (hundredths here) times 10, truncated
BudgetTenths == budget_million \div 10

Returned == pc = "done"
Raised == pc = "raised"

RowsOfClass(c) == {i \in DOMAIN players : players[i].element_type = c}

CostOf(S) == SumOver(S, [i \in DOMAIN players |-> players[i].now_cost])
PointsOf(S) == SumOver(S, exp_pts_window)
ClubCount(S, club) == Cardinality({i \in S : players[i].team = club})
Clubs == {players[i].team : i \in DOMAIN players}

\* the sets of rows with 2 GK, 5 DEF, 5 MID, 3 FWD and nobody else
QuotaSquads ==
    {G \cup D \cup M \cup F :
        G \in KSubsets(RowsOfClass(1), 2), D \in KSubsets(RowsOfClass(2), 5),
        M \in KSubsets(RowsOfClass(3), 5), F \in KSubsets(RowsOfClass(4), 3)}

WithinClubCap(S) == \A club \in Clubs : ClubCount(S, club) <= 3

\* the 15-row squads that satisfy the quotas, the budget and the club cap
LegalSquads == {S \in QuotaSquads : WithinClubCap(S) /\ CostOf(S) <= BudgetTenths}

\* S is a legal squad, checked row by row
IsLegalSquad(S) ==
    /\ Cardinality(S) = 15
    /\ Cardinality({players[i].id : i \in S}) = 15
    /\ Cardinality(S \cap RowsOfClass(1)) = 2
    /\ Cardinality(S \cap RowsOfClass(2)) = 5
    /\ Cardinality(S \cap RowsOfClass(3)) = 5
    /\ Cardinality(S \cap RowsOfClass(4)) = 3
    /\ \A i \in S : players[i].element_type \in 1..4
    /\ CostOf(S) <= BudgetTenths
    /\ WithinClubCap(S)

ResultSquad == Range(result.squad)

----------------------------------------------------------------------------
(* C1: whenever the exact solver returns a result, the squad has exactly 15
   distinct players, exactly 2 GK, 5 DEF, 5 MID and 3 FWD and nobody of
   another class, its summed cost is at most the budget in tenths, and no
   club has more than 3 of its players. *)
C1_MipSquadIsLegal ==
    (Returned /\ solver = "mip") =>
        /\ Len(result.squad) = 15
        /\ IsLegalSquad(ResultSquad)

\* a returned exact squad in which one club has 3 players and a fourth
\* player of that club would have fitted the budget and scored more
C1_Witness ==
    /\ Returned /\ solver = "mip"
    /\ \E club \in Clubs : ClubCount(ResultSquad, club) = 3
    /\ \E S \in QuotaSquads :
         /\ ~WithinClubCap(S)
         /\ CostOf(S) <= BudgetTenths
         /\ PointsOf(S) > result.expected_points

(* C3: the squad returned by the exact solver is globally optimal: no legal
   squad of the pool has a larger sum of windowed expected points. *)
C3_MipSquadIsOptimal ==
    (Returned /\ solver = "mip") =>
        \A S \in LegalSquads : PointsOf(S) <= PointsOf(ResultSquad)

\* a returned exact squad that beats another legal squad while the budget
\* excludes a quota- and club-legal squad worth more
C3_Witness ==
    /\ Returned /\ solver = "mip"
    /\ \E S \in LegalSquads : PointsOf(S) < PointsOf(ResultSquad)
    /\ \E S \in QuotaSquads :
         /\ WithinClubCap(S)
         /\ CostOf(S) > BudgetTenths
         /\ PointsOf(S) > PointsOf(ResultSquad)

(* C4: when the call is valid and no legal squad exists, the exact solver
   raises InfeasibleError, no other kind of error, and returns no result. *)
C4_MipInfeasibleRaises ==
    (solver = "mip" /\ pc \in {"done", "raised"} /\ HasRequiredColumns
        /\ UniqueIds /\ ValidRange /\ LegalSquads = {}) =>
        /\ Raised
        /\ err.kind = "InfeasibleError"
        /\ result = NoResult

\* the exact solver has raised on a pool that has quota- and club-legal
\* squads, all of them above the budget
C4_Witness ==
    /\ Raised /\ solver = "mip" /\ err.kind = "InfeasibleError"
    /\ \E S \in QuotaSquads : WithinClubCap(S) /\ CostOf(S) > BudgetTenths
    /\ budget_million > 0

----------------------------------------------------------------------------
(* The heuristic solver *)

GaStarted == solver = "ga" /\ element_type >= 1

\* summed cost of the rows listed in sel, repetitions counted
SeqCost(sel) == SumOver(DOMAIN sel, [k \in DOMAIN sel |-> players[sel[k]].now_cost])

(* C2: in the heuristic solver, after every player taken the remaining
   budget is >= 0 and equals the budget in tenths minus the summed cost of
   the players taken so far, no player is taken twice, no club has more
   than 3 taken players, and the classes are filled in the order GK, DEF,
   MID, FWD; whenever the heuristic returns, the squad is the 15 players
   taken, 2/5/5/3 per class, within the budget and the club cap. *)
C2_GaKeepsBudgetAndCap ==
    GaStarted =>
        /\ remaining_budget >= 0
        /\ remaining_budget = BudgetTenths - SeqCost(selected_players)
        /\ \A k, l \in DOMAIN selected_players :
             players[selected_players[k]].id = players[selected_players[l]].id
                 => k = l
        /\ \A club \in Clubs : ClubCount(Range(selected_players), club) <= 3
        /\ \A k, l \in DOMAIN selected_players :
             k < l => players[selected_players[k]].element_type
                        <= players[selected_players[l]].element_type
        /\ Returned =>
             /\ result.squad = selected_players
             /\ Len(result.squad) = 15
             /\ IsLegalSquad(ResultSquad)

\* the heuristic has returned a squad after passing over a player of strictly
\* higher points-per-cost than one it took in the same class
C2_Witness ==
    /\ Returned /\ solver = "ga"
    /\ \E i \in DOMAIN players \ ResultSquad : \E j \in ResultSquad :
         /\ players[i].element_type = players[j].element_type
         /\ exp_pts_window[i] * players[j].now_cost
              > exp_pts_window[j] * players[i].now_cost

(* C5: the heuristic solver raises InfeasibleError only when no legal squad
   exists: whenever some 15-player squad satisfies the quotas, the budget
   and the club cap, solver "ga" returns a squad. *)
C5_GaRaisesOnlyIfInfeasible ==
    (GaStarted /\ Raised /\ err.kind = "InfeasibleError") => LegalSquads = {}

----------------------------------------------------------------------------
(* The minimal dataset of the tests *)

\* a call of test cases 1 and 3: the minimal dataset, or the same with the
\* rows above the median moved to club 1, at budget 100
TestDatasetCall ==
    /\ players \in {create_minimal_test_dataset, club_constraint_dataset}
    /\ budget_million = 10000
    /\ solver \in {"mip", "ga"}
    /\ expected_points_cols = NoneGiven

(* C6, as claimed: the minimal dataset is feasible at budget 100:
   select_initial_squad returns a legal 15-player squad for it under both
   solvers, also after the high-scoring players are moved to club 1. *)
C6_TestDatasetReturns ==
    (TestDatasetCall /\ pc \in {"done", "raised"}) =>
        /\ Returned
        /\ Len(result.squad) = 15
        /\ IsLegalSquad(ResultSquad)

(* C6, amended: the minimal dataset (4 GK, 8 DEF, 6 MID, 4 FWD, clubs 1..4,
   costs 40..90) has no legal squad at budget 100, four clubs allowing at
   most 12 players: both solvers raise InfeasibleError and return nothing,
   also after the high-scoring players are moved to club 1. *)
C6_TestDatasetIsInfeasible ==
    (TestDatasetCall /\ pc \in {"done", "raised"}) =>
        /\ Cardinality(RowsOfClass(1)) = 4 /\ Cardinality(RowsOfClass(2)) = 8
        /\ Cardinality(RowsOfClass(3)) = 6 /\ Cardinality(RowsOfClass(4)) = 4
        /\ Clubs \subseteq 1..4
        /\ \A i \in DOMAIN players : players[i].now_cost \in 40..90
        /\ Raised
        /\ err.kind = "InfeasibleError"
        /\ result = NoResult

\* the exact solver has raised InfeasibleError on the dataset of test case 3
\* although quota-legal squads fit the budget of 100
C6_Witness ==
    /\ players = club_constraint_dataset
    /\ budget_million = 10000
    /\ solver = "mip"
    /\ Raised /\ err.kind = "InfeasibleError"
    /\ \E S \in QuotaSquads : CostOf(S) <= BudgetTenths

----------------------------------------------------------------------------
(* Ties *)

IsOptimal(S) == \A T \in LegalSquads : PointsOf(T) <= PointsOf(S)

(* C7: when several legal squads tie for the maximum summed windowed
   expected points and differ in cost, the squad returned is the cheapest
   of them. *)
C7_ReturnsCheapestOfTied ==
    (Returned /\ IsOptimal(ResultSquad)) =>
        \A S \in LegalSquads :
            PointsOf(S) = PointsOf(ResultSquad) => CostOf(ResultSquad) <= CostOf(S)

----------------------------------------------------------------------------
(* Validation *)

\* nothing after validation has run: no expected points, no solver, no result
NothingBuiltOrSolved ==
    /\ exp_pts_window = << >>
    /\ result = NoResult
    /\ selected_players = << >>
    /\ element_type = 0

IsSchemaError == err.kind = "KeyError" /\ err.msg = "Missing required columns"
IsDataError == err.kind = "ValueError" /\ err.msg = "Duplicate player IDs found"
IsRangeError ==
    /\ err.kind = "ValueError"
    /\ err.msg \in {"Invalid gameweek range", "Budget must be positive"}

DuplicateIds == ~UniqueIds

(* C8: if the players table lacks any of the columns id, element_type, team,
   now_cost, the call fails with a KeyError that names every missing column,
   whatever else is wrong with the input, and before expected points are
   built or a solver runs. *)
C8_MissingColumnsRaiseKeyError ==
    (pc # "call" /\ ~HasRequiredColumns) =>
        /\ Raised
        /\ IsSchemaError
        /\ Range(err.cols) = {"id", "element_type", "team", "now_cost"} \ columns
        /\ NothingBuiltOrSolved

\* a KeyError naming two missing columns, raised although the ids are
\* duplicated, the window is invalid and the budget is not positive
C8_Witness ==
    /\ Raised /\ IsSchemaError
    /\ err.cols = <<"element_type", "now_cost">>
    /\ DuplicateIds
    /\ gw_end < gw_start
    /\ budget_million <= 0

(* C9, as claimed: duplicate player ids always raise the data error,
   whatever else is invalid (missing other columns, round range, budget,
   solver), and the data error is neither the schema nor the range error. *)
C9_DuplicateIdsAlwaysDataError ==
    (pc # "call" /\ DuplicateIds) =>
        /\ Raised
        /\ IsDataError
        /\ ~IsSchemaError
        /\ ~IsRangeError

(* C9, amended: when the four required columns are present, duplicate player
   ids raise the data error (ValueError "Duplicate player IDs found")
   whatever the round range, the budget and the solver are; it differs from
   the schema error in kind and from the range error in message.  When a
   required column is missing the schema error is raised instead. *)
C9_DuplicateIdsDataErrorIfColumns ==
    (pc # "call" /\ DuplicateIds) =>
        /\ Raised
        /\ NothingBuiltOrSolved
        /\ IF HasRequiredColumns
           THEN IsDataError /\ ~IsSchemaError /\ ~IsRangeError
           ELSE IsSchemaError /\ ~IsDataError

\* the data error raised for duplicate ids although the window is invalid
\* and the budget is not positive
C9_Witness ==
    /\ Raised /\ IsDataError
    /\ DuplicateIds /\ HasRequiredColumns
    /\ gw_start < 1 /\ gw_end > 38
    /\ budget_million <= 0
    /\ solver = "random"

(* C10: for a pool with the required columns and unique ids, the call fails
   with a range error, before anything is built or solved, exactly when
   gw_start < 1, gw_end < gw_start, gw_end > 38 or the budget is <= 0; for
   every other window and budget validation passes. *)
C10_RangeErrorExactly ==
    (pc # "call" /\ HasRequiredColumns /\ UniqueIds) =>
        IF gw_start < 1 \/ gw_end < gw_start \/ gw_end > 38 \/ budget_million <= 0
        THEN Raised /\ IsRangeError /\ NothingBuiltOrSolved
        ELSE /\ ~IsRangeError /\ ~IsDataError /\ ~IsSchemaError
             /\ pc = "validated" => err = NoError

\* a window ending in round 39, with a positive budget, has raised the range
\* error
C10_Witness ==
    /\ Raised /\ IsRangeError
    /\ HasRequiredColumns /\ UniqueIds
    /\ gw_start = 1 /\ gw_end = 39
    /\ budget_million > 0

\* validation has passed for the whole season and the smallest positive budget
C10_ValidationPasses ==
    /\ pc = "validated"
    /\ gw_start = 1 /\ gw_end = 38
    /\ budget_million = 5

----------------------------------------------------------------------------
(* Fixture weighting *)

MultiplierReturned == pc \in {"multiplier_returned", "column_set"}

\* the fixture table has its five columns
FullFixtureTable ==
    fixtures.cols = {"event", "team_h", "team_a", "team_h_difficulty",
                     "team_a_difficulty"}

\* the fixtures of the requested round, as positions in the table
RoundFixtures ==
    {k \in DOMAIN fixtures.rows : fixtures.rows[k].event = the_gameweek}

\* the difficulties set for a club in the round: one per side it plays
ClubSides(club) ==
    {<<k, "h">> : k \in {j \in RoundFixtures : fixtures.rows[j].team_h = club}}
    \cup {<<k, "a">> : k \in {j \in RoundFixtures : fixtures.rows[j].team_a = club}}

SideDifficulty(side) ==
    IF side[2] = "h" THEN fixtures.rows[side[1]].team_h_difficulty
    ELSE fixtures.rows[side[1]].team_a_difficulty

\* the club plays exactly one fixture of the round, on one side
HasOneFixture(club) == Cardinality(ClubSides(club)) = 1

FixtureDifficulty(club) == SideDifficulty(CHOOSE side \in ClubSides(club) : TRUE)

\* 1.4, 1.2, 1.0, 0.8, 0.6 in tenths
MultiplierTable == <<14, 12, 10, 8, 6>>

(* C11: for a club with one fixture in the round, the multiplier of its
   players is 1.4, 1.2, 1.0, 0.8, 0.6 for difficulty 1, 2, 3, 4, 5; between
   two such clubs the one with the lower or equal difficulty has the higher
   or equal multiplier; and a base per-round value of 2.5 (95 total points)
   becomes 3.0 at difficulty 2 and 2.0 at difficulty 4. *)
C11_MultiplierByDifficulty ==
    (MultiplierReturned /\ FullFixtureTable) =>
        \A i \in DOMAIN players :
            HasOneFixture(players[i].team) =>
                LET d == FixtureDifficulty(players[i].team) IN
                /\ d \in 1..5 => multipliers[i] = MultiplierTable[d]
                /\ \A j \in DOMAIN players :
                     (HasOneFixture(players[j].team)
                        /\ d <= FixtureDifficulty(players[j].team))
                     => multipliers[i] >= multipliers[j]
                /\ (pc = "column_set" /\ players[i].total_points = 95) =>
                     /\ d = 2 => players_work[1][i] = 3 * 380
                     /\ d = 4 => players_work[1][i] = 2 * 380

\* base 2.5 has become 3.0 for the home club at difficulty 2 and 2.0 for the
\* away club at difficulty 4
C11_Witness ==
    /\ pc = "column_set" /\ FullFixtureTable
    /\ \E i, j \in DOMAIN players :
         /\ players[i].total_points = 95 /\ players[j].total_points = 95
         /\ HasOneFixture(players[i].team) /\ HasOneFixture(players[j].team)
         /\ FixtureDifficulty(players[i].team) = 2
         /\ FixtureDifficulty(players[j].team) = 4
         /\ players_work[1][i] = 1140 /\ players_work[1][j] = 760

(* C12: the fixture multiplier always lies in [0.6, 1.4], whatever integer
   difficulty the fixture table holds (0, negative, 6 and above included). *)
C12_MultiplierWithinRange ==
    MultiplierReturned => \A i \in DOMAIN multipliers : multipliers[i] \in 6..14

\* the table gives no information for the round: it is empty, has no round
\* column, or no fixture of the round
NoRoundInformation ==
    \/ fixtures.rows = << >>
    \/ "event" \notin fixtures.cols
    \/ RoundFixtures = {}

\* the club is named by a club column of a fixture of the round
ClubAppears(club) ==
    \E k \in RoundFixtures :
        \/ "team_h" \in fixtures.cols /\ fixtures.rows[k].team_h = club
        \/ "team_a" \in fixtures.cols /\ fixtures.rows[k].team_a = club

(* C13: the call returns one multiplier per player, in player order (players
   of one club share theirs); it is exactly 1.0 for every player whose club
   appears in no fixture of the requested round, and for every player when
   the table is empty, lacks the round column or has no fixture in the
   round. *)
C13_NeutralWithoutFixture ==
    MultiplierReturned =>
        /\ DOMAIN multipliers = DOMAIN players
        /\ \A i, j \in DOMAIN players :
             players[i].team = players[j].team => multipliers[i] = multipliers[j]
        /\ \A i \in DOMAIN players :
             (NoRoundInformation \/ ~ClubAppears(players[i].team))
                 => multipliers[i] = 10

\* a round with a fixture that moves one club's multiplier, while a club
\* that plays at another difficulty in another round only stays at 1.0
C13_Witness ==
    /\ MultiplierReturned /\ FullFixtureTable
    /\ \E i, j \in DOMAIN players :
         /\ multipliers[i] # 10
         /\ ~ClubAppears(players[j].team)
         /\ multipliers[j] = 10
         /\ \E k \in DOMAIN fixtures.rows :
              /\ fixtures.rows[k].event # the_gameweek
              /\ fixtures.rows[k].team_h = players[j].team
              /\ fixtures.rows[k].team_h_difficulty # 3

----------------------------------------------------------------------------
(* The expected-points builder without fixture information *)

\* the fixture table gives no information: it is empty, has no round column,
\* or has neither club column
NoFixtureInformation ==
    \/ fixtures.rows = << >>
    \/ "event" \notin fixtures.cols
    \/ {"team_h", "team_a"} \cap fixtures.cols = {}

\* the named columns, None standing for one column per round of the window
NamedColumns ==
    IF expected_points_cols.given THEN expected_points_cols.names
    ELSE [k \in 1..(gw_end - gw_start + 1) |-> gw_start + k - 1]

\* every named column exists in the players table
NamedColumnsExist ==
    \A k \in DOMAIN NamedColumns : \A i \in DOMAIN players :
        NamedColumns[k] \in DOMAIN players[i].ep

\* the value the k-th named column is built from, in 1/38ths: the existing
\* value, or max(0.5, total_points / 38)
Baseline(i, k) ==
    IF NamedColumnsExist THEN players[i].ep[NamedColumns[k]]
    ELSE IF players[i].total_points_isna THEN 50
    ELSE IF players[i].total_points > 19 THEN players[i].total_points ELSE 19

Built == players_work # << >>

(* C14: with an empty fixture table, or a non-empty one that lacks the round
   column or the club columns, select_initial_squad does not fail under
   either solver where a run with neutral multipliers would not (no legal
   squad), and every per-round value is the baseline times 1.0, so that the
   solver sees the points of a run in which all multipliers are neutral. *)
C14_RunsWithoutFixtureInformation ==
    (NoFixtureInformation /\ Built /\ solver \in {"mip", "ga"}) =>
        /\ \A k \in DOMAIN players_work : \A i \in DOMAIN players :
             players_work[k][i] = 10 * Baseline(i, k)
        /\ Raised => err.kind = "InfeasibleError"

----------------------------------------------------------------------------
(* The expected-points builder with fixture information *)

\* the sides a club plays in round r, as far as the table's columns tell
SidesInRound(club, r) ==
    IF fixtures.rows = << >> \/ "event" \notin fixtures.cols THEN {}
    ELSE LET in_round == {k \in DOMAIN fixtures.rows : fixtures.rows[k].event = r}
         IN {<<k, "h">> : k \in {j \in in_round :
                 "team_h" \in fixtures.cols /\ fixtures.rows[j].team_h = club}}
            \cup {<<k, "a">> : k \in {j \in in_round :
                 "team_a" \in fixtures.cols /\ fixtures.rows[j].team_a = club}}

\* the difficulty of a side, 3 when the table has no such column
DifficultyOfSide(side) ==
    IF side[2] = "h"
    THEN IF "team_h_difficulty" \in fixtures.cols
         THEN fixtures.rows[side[1]].team_h_difficulty ELSE 3
    ELSE IF "team_a_difficulty" \in fixtures.cols
         THEN fixtures.rows[side[1]].team_a_difficulty ELSE 3

\* every club plays at most one side per round
OneFixturePerRound ==
    \A i \in DOMAIN players : \A r \in 1..38 :
        Cardinality(SidesInRound(players[i].team, r)) <= 1

\* multiplier(club, r) in tenths: 1.0 without a fixture, else
\* max(0.6, 1.6 - 0.2 * difficulty)
RoundMultiplier(club, r) ==
    IF SidesInRound(club, r) = {} THEN 10
    ELSE LET d == DifficultyOfSide(CHOOSE side \in SidesInRound(club, r) : TRUE)
         IN IF 16 - 2 * d > 6 THEN 16 - 2 * d ELSE 6

(* C15: for every player and every named per-round column, the k-th one
   being paired with round gw_start + k - 1, the value in the augmented
   table is the existing value times the club's multiplier of that round
   when all named columns exist, and max(0.5, total_points / 38) times that
   multiplier when they do not. *)
C15_PerRoundValues ==
    (Built /\ OneFixturePerRound) =>
        /\ DOMAIN players_work = DOMAIN NamedColumns
        /\ \A k \in DOMAIN players_work :
             /\ DOMAIN players_work[k] = DOMAIN players
             /\ \A i \in DOMAIN players :
                  players_work[k][i] =
                      Baseline(i, k) * RoundMultiplier(players[i].team, gw_start + k - 1)

\* the column named for round 2 comes first and has been scaled by round 1's
\* multiplier, which differs from round 2's for that player's club
C15_Witness ==
    /\ Built /\ NamedColumnsExist
    /\ NamedColumns = <<2, 1>>
    /\ gw_start = 1
    /\ \E i \in DOMAIN players :
         /\ players[i].ep[2] # players[i].ep[1]
         /\ players[i].ep[2] # 0
         /\ RoundMultiplier(players[i].team, 1) # RoundMultiplier(players[i].team, 2)
         /\ players_work[1][i] = players[i].ep[2] * RoundMultiplier(players[i].team, 1)

\* synthesized values, although the first named column existed: 0.5 per
\* round for a player below zero, scaled by 0.6
C15_WitnessSynthesized ==
    /\ Built /\ ~NamedColumnsExist
    /\ \E i \in DOMAIN players :
         /\ 1 \in DOMAIN players[i].ep
         /\ NamedColumns[1] = 1
         /\ players[i].total_points <= 0
         /\ players_work[1][i] = 19 * 6

(* C16: for every player, exp_pts_window is the sum of the player's
   fixture-adjusted per-round values over the rounds gw_start..gw_end, and
   the expected_points of a SquadResult is the sum of exp_pts_window over
   its 15 players. *)
C16_WindowSumOverRounds ==
    Built =>
        /\ \A r \in gw_start..gw_end : (r - gw_start + 1) \in DOMAIN players_work
        /\ \A i \in DOMAIN players :
             exp_pts_window[i] =
                 SumOver(gw_start..gw_end,
                         [r \in gw_start..gw_end |->
                             players_work[r - gw_start + 1][i]])
        /\ Returned =>
             /\ Cardinality(ResultSquad) = 15
             /\ result.expected_points = SumOver(ResultSquad, exp_pts_window)

\* what holds for every list of names: the sum runs over the named columns
C16_WindowSumOverNamedColumns ==
    Built =>
        /\ \A i \in DOMAIN players :
             exp_pts_window[i] =
                 SumOver(DOMAIN players_work,
                         [k \in DOMAIN players_work |-> players_work[k][i]])
        /\ Returned =>
             /\ Cardinality(ResultSquad) = 15
             /\ result.expected_points = SumOver(ResultSquad, exp_pts_window)

----------------------------------------------------------------------------
(* The lineup selector *)

LineupReturned == pc = "lineup_done"
LineupRaised == pc = "raised" /\ squad_df # << >>
LineupEnded == LineupReturned \/ LineupRaised

\* the ids of the rows listed in seq
IdsOf(seq) == {squad_df[seq[k]].id : k \in DOMAIN seq}

\* the rows of the squad table labelled with the position class
SquadClass(position) == {i \in DOMAIN squad_df : squad_df[i].position = position}

\* 15 players with unique ids, 2 GK, 5 DEF, 5 MID, 3 FWD
StandardSquad ==
    /\ Len(squad_df) = 15
    /\ Cardinality({squad_df[i].id : i \in DOMAIN squad_df}) = 15
    /\ Cardinality(SquadClass("GK")) = 2 /\ Cardinality(SquadClass("DEF")) = 5
    /\ Cardinality(SquadClass("MID")) = 5 /\ Cardinality(SquadClass("FWD")) = 3

\* the 8 allowed formations, in their order
Formations ==
    << <<3, 4, 3>>, <<3, 5, 2>>, <<4, 3, 3>>, <<4, 4, 2>>,
       <<4, 5, 1>>, <<5, 2, 3>>, <<5, 3, 2>>, <<5, 4, 1>> >>

\* the squad has enough players of every class for the formation
Feasible(f) ==
    /\ Cardinality(SquadClass("GK")) >= 1
    /\ Cardinality(SquadClass("DEF")) >= f[1]
    /\ Cardinality(SquadClass("MID")) >= f[2]
    /\ Cardinality(SquadClass("FWD")) >= f[3]

\* a player's expected points of the round, times RoundScale: the round's
\* column, or the windowed points averaged over the round columns
RoundScale ==
    IF the_gameweek \in DOMAIN squad_df[1].ep THEN 1
    ELSE Cardinality(DOMAIN squad_df[1].ep)

RoundPoints(i) ==
    IF the_gameweek \in DOMAIN squad_df[i].ep THEN squad_df[i].ep[the_gameweek]
    ELSE squad_df[i].exp_pts_window

\* the number of rows of seq labelled with the position class
CountIn(seq, position) ==
    Cardinality({k \in DOMAIN seq : squad_df[seq[k]].position = position})

\* 11 starters and 4 bench players, disjoint, together the squad; 1 GK and
\* the formation's counts among the starters; an allowed formation; captain
\* and vice-captain two different starters
WellFormedLineup ==
    /\ Len(lineup.starting_eleven) = 11
    /\ Cardinality(IdsOf(lineup.starting_eleven)) = 11
    /\ Len(lineup.bench) = 4
    /\ Cardinality(IdsOf(lineup.bench)) = 4
    /\ IdsOf(lineup.starting_eleven) \cap IdsOf(lineup.bench) = {}
    /\ IdsOf(lineup.starting_eleven) \cup IdsOf(lineup.bench)
         = {squad_df[i].id : i \in DOMAIN squad_df}
    /\ \E k \in DOMAIN Formations : lineup.formation = Formations[k]
    /\ CountIn(lineup.starting_eleven, "GK") = 1
    /\ CountIn(lineup.starting_eleven, "DEF") = lineup.formation[1]
    /\ CountIn(lineup.starting_eleven, "MID") = lineup.formation[2]
    /\ CountIn(lineup.starting_eleven, "FWD") = lineup.formation[3]
    /\ lineup.captain_id \in IdsOf(lineup.starting_eleven)
    /\ lineup.vice_captain_id \in IdsOf(lineup.starting_eleven)
    /\ lineup.captain_id # lineup.vice_captain_id

(* C17: for any 15-player squad with unique ids and 2/5/5/3 per class,
   select_starting_eleven returns 11 starters and 4 bench players, disjoint
   and together exactly the squad, with 1 GK and the DEF/MID/FWD counts of
   the returned formation among the starters, the formation being one of
   the 8 allowed, and captain and vice-captain two different starters. *)
C17_ReturnsWellFormedLineup ==
    (StandardSquad /\ LineupEnded) => (LineupReturned /\ WellFormedLineup)

\* what holds of every lineup that is returned for such a squad
C17_ReturnedLineupIsWellFormed ==
    (StandardSquad /\ LineupReturned) => WellFormedLineup

\* n rows of the class with the highest round points
BestRows(position, n) ==
    CHOOSE T \in KSubsets(SquadClass(position), n) :
        \A i \in T, j \in SquadClass(position) \ T : RoundPoints(i) >= RoundPoints(j)

\* a row of T with the highest round points
Highest(T) == CHOOSE i \in T : \A j \in T : RoundPoints(i) >= RoundPoints(j)

\* the total round score of a feasible formation, in tenths of 1/RoundScale
\* points: the best goalkeeper and the best rows of each class, the highest
\* weighted as captain and the next as vice-captain (weights in tenths)
FormationScore(f) ==
    LET xi == BestRows("GK", 1) \cup BestRows("DEF", f[1])
                \cup BestRows("MID", f[2]) \cup BestRows("FWD", f[3])
        c == Highest(xi)
        v == Highest(xi \ {c})
    IN 10 * SumOver(xi, [i \in DOMAIN squad_df |-> RoundPoints(i)])
         + (captain_multiplier - 10) * RoundPoints(c)
         + (vice_captain_multiplier - 10) * RoundPoints(v)

FeasibleFormations == {k \in DOMAIN Formations : Feasible(Formations[k])}

\* the first formation, in order, of the highest total round score
IsBestFormation(k) ==
    /\ k \in FeasibleFormations
    /\ \A j \in FeasibleFormations :
          /\ FormationScore(Formations[j]) <= FormationScore(Formations[k])
          /\ j < k => FormationScore(Formations[j]) < FormationScore(Formations[k])

\* starters, bench, captain and vice-captain are those of the formation f
ComputedFor(f) ==
    LET xi == Range(lineup.starting_eleven)
    IN /\ Len(lineup.starting_eleven) = 11 /\ Cardinality(xi) = 11
       /\ CountIn(lineup.starting_eleven, "GK") = 1
       /\ CountIn(lineup.starting_eleven, "DEF") = f[1]
       /\ CountIn(lineup.starting_eleven, "MID") = f[2]
       /\ CountIn(lineup.starting_eleven, "FWD") = f[3]
       /\ \A i \in xi, j \in DOMAIN squad_df \ xi :
             squad_df[i].position = squad_df[j].position
                => RoundPoints(i) >= RoundPoints(j)
       /\ IdsOf(lineup.bench)
            = {squad_df[i].id : i \in DOMAIN squad_df} \ IdsOf(lineup.starting_eleven)
       /\ \E c \in xi :
             /\ squad_df[c].id = lineup.captain_id
             /\ \A j \in xi : RoundPoints(c) >= RoundPoints(j)
             /\ \E v \in xi \ {c} :
                   /\ squad_df[v].id = lineup.vice_captain_id
                   /\ \A j \in xi \ {c} : RoundPoints(v) >= RoundPoints(j)
       /\ lineup.expected_points_gw1 = FormationScore(f)

BestFormationReturned ==
    \E k \in DOMAIN Formations :
        /\ IsBestFormation(k)
        /\ lineup.formation = Formations[k]
        /\ ComputedFor(Formations[k])

(* C18: select_starting_eleven returns the formation whose total round
   score is the maximum over all feasible formations, the first of them in
   the order 3-4-3, 3-5-2, 4-3-3, 4-4-2, 4-5-1, 5-2-3, 5-3-2, 5-4-1 when
   several share the maximum, and the returned starters, bench, captain and
   vice-captain are those computed for that same formation. *)
C18_ReturnsBestFormation ==
    (LineupEnded /\ FeasibleFormations # {})
        => (LineupReturned /\ BestFormationReturned)

\* what holds of every lineup that is returned
C18_ReturnedFormationIsBest == LineupReturned => BestFormationReturned

\* a returned lineup whose formation shares the highest score with a later one
C18_TieResolvedToFirst ==
    ~(/\ LineupReturned
      /\ \E k, j \in FeasibleFormations :
            /\ lineup.formation = Formations[k] /\ k < j
            /\ FormationScore(Formations[j]) = FormationScore(Formations[k]))

\* the configuration error of the lineup selector
NoValidFormation ==
    /\ LineupRaised
    /\ err.kind = "ValueError"
    /\ err.msg = "No valid formation possible with current squad"

(* C19: select_starting_eleven fails with ValueError 'No valid formation
   possible' if and only if none of the 8 formations is feasible for the
   squad's position distribution; in particular it never fails for a squad
   of 2 GK, 5 DEF, 5 MID and 3 FWD, whatever the round expected points are,
   zero and negative values included. *)
C19_FailsIffNoFormationFeasible ==
    LineupEnded =>
        /\ NoValidFormation <=> FeasibleFormations = {}
        /\ StandardSquad => ~LineupRaised

\* the direction that holds: without a feasible formation the call fails,
\* and every failure is this configuration error
C19_FailsWhenNoFormationFeasible ==
    LineupEnded =>
        /\ FeasibleFormations = {} => NoValidFormation
        /\ LineupRaised => NoValidFormation

\* a failure of a squad with feasible formations has no formation of a total
\* above the initial best_points of -1 (-10 * RoundScale in these units)
C19_FailureHasNoScoreAboveInitial ==
    (LineupRaised /\ FeasibleFormations # {}) =>
        \A k \in FeasibleFormations :
            FormationScore(Formations[k]) <= InitialBestPoints * 10 * RoundScale

\* the starters of the returned lineup, as rows of the squad table
Starters == Range(lineup.starting_eleven)

(* C20: in the returned lineup the captain is a starter whose round
   expected points are >= those of every other starter, and the
   vice-captain is a starter other than the captain whose round expected
   points are >= those of every starter except the captain. *)
C20_CaptainAndViceHighest ==
    LineupReturned =>
        \E c \in Starters :
            /\ squad_df[c].id = lineup.captain_id
            /\ \A j \in Starters : RoundPoints(c) >= RoundPoints(j)
            /\ \E v \in Starters \ {c} :
                  /\ squad_df[v].id = lineup.vice_captain_id
                  /\ \A j \in Starters \ {c} : RoundPoints(v) >= RoundPoints(j)

\* a returned lineup whose captain is strictly above the vice-captain, who is
\* strictly above another starter
C20_Witness ==
    /\ LineupReturned
    /\ \E c, v, j \in Starters :
          /\ squad_df[c].id = lineup.captain_id
          /\ squad_df[v].id = lineup.vice_captain_id
          /\ RoundPoints(c) > RoundPoints(v)
          /\ RoundPoints(v) > RoundPoints(j)

\* a returned lineup whose two highest starters are level
C20_WitnessLevel ==
    /\ LineupReturned
    /\ \E c, v \in Starters :
          /\ squad_df[c].id = lineup.captain_id
          /\ squad_df[v].id = lineup.vice_captain_id
          /\ RoundPoints(c) = RoundPoints(v)

\* the weight, in tenths, of a starter in the round score
StarterWeight(i) ==
    IF squad_df[i].id = lineup.captain_id THEN captain_multiplier
    ELSE IF squad_df[i].id = lineup.vice_captain_id THEN vice_captain_multiplier
    ELSE 10

(* C21: the round score reported by select_starting_eleven is the sum over
   the 11 returned starters of their round expected points, the captain's
   counted captain_multiplier times, the vice-captain's
   vice_captain_multiplier times and every other starter's once; with the
   default weights 2.0 and 1.0 it is the plain sum of the starters' points
   plus the captain's points once more.  (Scores in tenths of 1/RoundScale
   points, weights in tenths.) *)
C21_RoundScore ==
    LineupReturned =>
        /\ lineup.expected_points_gw1
             = SumOver(Starters, [i \in DOMAIN squad_df |->
                                     RoundPoints(i) * StarterWeight(i)])
        /\ (captain_multiplier = 20 /\ vice_captain_multiplier = 10) =>
               \E c \in Starters :
                  /\ squad_df[c].id = lineup.captain_id
                  /\ lineup.expected_points_gw1
                       = 10 * SumOver(Starters, [i \in DOMAIN squad_df |-> RoundPoints(i)])
                           + 10 * RoundPoints(c)

\* a returned lineup with a vice-captain weight of 2.0 and a vice-captain of
\* non-zero points, and one with the default weights
C21_Witness ==
    /\ LineupReturned
    /\ vice_captain_multiplier = 20
    /\ \E v \in Starters :
          squad_df[v].id = lineup.vice_captain_id /\ RoundPoints(v) # 0

C21_WitnessDefaults ==
    /\ LineupReturned
    /\ captain_multiplier = 20 /\ vice_captain_multiplier = 10
    /\ \E c \in Starters :
          squad_df[c].id = lineup.captain_id /\ RoundPoints(c) > 0

----------------------------------------------------------------------------
(* Fixture weighting: several fixtures of one club in a round *)

\* the times a club's multiplier is set in the round: <<row, 1>> as home
\* side and <<row, 2>> as away side, for the club columns the table has
ClubAssignments(club) ==
    {<<k, 1>> : k \in {j \in RoundFixtures :
                         "team_h" \in fixtures.cols /\ fixtures.rows[j].team_h = club}}
    \cup {<<k, 2>> : k \in {j \in RoundFixtures :
                         "team_a" \in fixtures.cols /\ fixtures.rows[j].team_a = club}}

\* a is set before b: an earlier row, or the home side of the same row
SetBefore(a, b) == a[1] < b[1] \/ (a[1] = b[1] /\ a[2] < b[2])

LastAssignment(club) ==
    CHOOSE a \in ClubAssignments(club) :
        \A b \in ClubAssignments(club) \ {a} : SetBefore(b, a)

\* max(0.6, 1.6 - 0.2 * difficulty) in tenths, of the difficulty the
\* assignment reads (3 when the table has no such column)
AssignedMultiplier(a) ==
    LET col == IF a[2] = 1 THEN "team_h_difficulty" ELSE "team_a_difficulty"
        d == IF col \in fixtures.cols THEN fixtures.rows[a[1]][col] ELSE 3
    IN IF 16 - 2 * d < 6 THEN 6 ELSE 16 - 2 * d

(* C22: when a club appears in more than one fixture of the round, or as
   both home and away side, the multiplier used for the club in the round is
   the one derived from the last such fixture in table order, the away
   assignment of a row coming after its home assignment; earlier values are
   overwritten, never combined. *)
C22_LastFixtureWins ==
    (MultiplierReturned /\ "event" \in fixtures.cols) =>
        \A i \in DOMAIN players :
            ClubAssignments(players[i].team) # {} =>
                multipliers[i] = AssignedMultiplier(LastAssignment(players[i].team))

\* a club set in two rows of the round, and a club set twice in one row, with
\* a last value different from the earlier one
C22_Witness ==
    /\ MultiplierReturned /\ "event" \in fixtures.cols
    /\ \E i \in DOMAIN players :
         \E a, b \in ClubAssignments(players[i].team) :
            /\ a[1] < b[1]
            /\ b = LastAssignment(players[i].team)
            /\ AssignedMultiplier(a) # AssignedMultiplier(b)
            /\ multipliers[i] = AssignedMultiplier(b)

C22_WitnessSameRow ==
    /\ MultiplierReturned /\ "event" \in fixtures.cols
    /\ \E i \in DOMAIN players :
         \E a, b \in ClubAssignments(players[i].team) :
            /\ a[1] = b[1] /\ a[2] = 1 /\ b[2] = 2
            /\ AssignedMultiplier(a) # AssignedMultiplier(b)
            /\ multipliers[i] = AssignedMultiplier(b)

----------------------------------------------------------------------------
(* The fixture summary of a SquadResult *)

SquadResultBuilt == pc = "done" /\ result.kind = "SquadResult"

\* the distinct clubs of the 15 selected players
SelectedClubs == {players[i].team : i \in Range(result.squad)}

\* the rows of the fixture table where the club plays the round at home, away
HomeRows(club, gw) ==
    {k \in DOMAIN fixtures.rows :
        fixtures.rows[k].event = gw /\ fixtures.rows[k].team_h = club}

AwayRows(club, gw) ==
    {k \in DOMAIN fixtures.rows :
        fixtures.rows[k].event = gw /\ fixtures.rows[k].team_a = club}

FirstRow(K) == CHOOSE k \in K : \A j \in K : k <= j

\* the difficulty column of a fixture row, 3 when the table has no such column
DifficultyIn(k, col) ==
    IF col \in fixtures.cols THEN fixtures.rows[k][col] ELSE 3

\* the descriptor of the club's round: from its home fixture if it has one,
\* else from its away fixture, else the neutral placeholder
Descriptor(club, gw) ==
    IF HomeRows(club, gw) # {}
    THEN LET k == FirstRow(HomeRows(club, gw))
         IN [gameweek |-> gw,
             opponent |-> [known |-> TRUE, team |-> fixtures.rows[k].team_a],
             venue |-> "H", difficulty |-> DifficultyIn(k, "team_h_difficulty")]
    ELSE IF AwayRows(club, gw) # {}
    THEN LET k == FirstRow(AwayRows(club, gw))
         IN [gameweek |-> gw,
             opponent |-> [known |-> TRUE, team |-> fixtures.rows[k].team_h],
             venue |-> "A", difficulty |-> DifficultyIn(k, "team_a_difficulty")]
    ELSE [gameweek |-> gw, opponent |-> [known |-> FALSE, team |-> 0],
          venue |-> "?", difficulty |-> 3]

\* an entry for every selected club, one descriptor per round of the window
\* in ascending order, mean (sum over count) and sum over these difficulties
SummaryCoversSelectedClubs ==
    LET info == result.fixtures_info
        n == gw_end - gw_start + 1
    IN /\ DOMAIN info.team_fixtures = SelectedClubs
       /\ DOMAIN info.difficulty_summary = SelectedClubs
       /\ \A club \in SelectedClubs :
             /\ Len(info.team_fixtures[club]) = n
             /\ \A k \in 1..n :
                   info.team_fixtures[club][k] = Descriptor(club, gw_start + k - 1)
             /\ info.difficulty_summary[club].fixtures = info.team_fixtures[club]
             /\ info.difficulty_summary[club].descriptors = n
             /\ info.difficulty_summary[club].total_difficulty
                  = SumOver(1..n, [k \in 1..n |->
                                     Descriptor(club, gw_start + k - 1).difficulty])

(* C23: for any fixture table, the fixture summary of a SquadResult has an
   entry for every distinct club among the 15 selected players, each with
   exactly one descriptor per round of the window in ascending round order,
   taken from the club's fixture in that round (home fixture if it has one,
   else away fixture) or the neutral placeholder (opponent Unknown, venue
   '?', difficulty 3) when it has none; the per-club mean and sum are
   computed over exactly these difficulties. *)
C23_SummaryForAnyTable == SquadResultBuilt => SummaryCoversSelectedClubs

(* C23, amended: the same for any fixture table that is not empty; for an
   empty table the summary lists the rounds of the window and has no club
   entry. *)
C23_SummaryForNonEmptyTable ==
    SquadResultBuilt =>
        /\ fixtures.rows # << >> => SummaryCoversSelectedClubs
        /\ fixtures.rows = << >> =>
              /\ DOMAIN result.fixtures_info.team_fixtures = {}
              /\ DOMAIN result.fixtures_info.difficulty_summary = {}
        /\ result.fixtures_info.gameweeks
             = [k \in 1..(gw_end - gw_start + 1) |-> gw_start + k - 1]

\* a summary where one selected club has a home and an away fixture in a
\* round and is described by the home one, which comes later in the table,
\* and another selected club has the placeholder
C23_Witness ==
    /\ SquadResultBuilt /\ fixtures.rows # << >>
    /\ \E club \in SelectedClubs, gw \in gw_start..gw_end :
          /\ HomeRows(club, gw) # {} /\ AwayRows(club, gw) # {}
          /\ FirstRow(AwayRows(club, gw)) < FirstRow(HomeRows(club, gw))
          /\ result.fixtures_info.team_fixtures[club][gw - gw_start + 1].venue = "H"
    /\ \E club \in SelectedClubs, gw \in gw_start..gw_end :
          result.fixtures_info.team_fixtures[club][gw - gw_start + 1].venue = "?"

\* a summary with an away descriptor, and one of a table without difficulty
\* columns
C23_WitnessAway ==
    /\ SquadResultBuilt
    /\ \E club \in SelectedClubs, gw \in gw_start..gw_end :
          /\ result.fixtures_info.team_fixtures[club][gw - gw_start + 1].venue = "A"
          /\ result.fixtures_info.team_fixtures[club][gw - gw_start + 1].difficulty # 3

C23_WitnessNoDifficultyColumns ==
    /\ SquadResultBuilt /\ fixtures.rows # << >>
    /\ "team_h_difficulty" \notin fixtures.cols
    /\ \E club \in SelectedClubs, gw \in gw_start..gw_end :
          result.fixtures_info.team_fixtures[club][gw - gw_start + 1].venue = "H"

----------------------------------------------------------------------------
(* The inputs of the two entry points *)

(* C24: select_initial_squad and select_starting_eleven leave their inputs
   unchanged: in every step of a call, successful or failing, the caller's
   players table keeps its columns and values (no per-round, exp_pts_window,
   value or position column added, no value scaled), the fixture table is
   unchanged, and the SquadResult passed to select_starting_eleven keeps the
   same squad table. *)
C24_InputsUnchanged ==
    [][/\ players' = players
       /\ columns' = columns
       /\ fixtures' = fixtures
       /\ squad_df' = squad_df]_vars

\* a call of select_initial_squad has ended, returning or failing, after the
\* per-round columns were built with a multiplier other than 1.0
C24_Witness ==
    /\ pc \in {"done", "raised"}
    /\ players # << >> /\ players_work # << >>
    /\ \E i \in DOMAIN players :
          /\ players[i].ep = << >>
          /\ players[i].total_points > 19
          /\ players_work[1][i] # 10 * players[i].total_points

\* a call of select_starting_eleven has ended after using the fallback column
C24_WitnessLineup ==
    /\ LineupEnded
    /\ the_gameweek \notin DOMAIN squad_df[1].ep

----------------------------------------------------------------------------
(* The derived fields of a SquadResult *)

\* the ids a per-position list holds
ListedIds(position) == Range(result.per_position[position])

(* C25: in every SquadResult built by the exact or the heuristic solver
   total_cost is the summed cost of the 15 players divided by 10
   (total_cost is in hundredths of a million, costs in tenths); the four
   per-position id lists are pairwise disjoint and their union is the set of
   the 15 selected ids; club_counts maps each selected club to the number of
   selected players of that club, so its values sum to 15; and the objective
   value in the diagnostics equals expected_points. *)
C25_DerivedFieldsAgree ==
    SquadResultBuilt =>
        /\ result.total_cost * 10
             = 100 * SumOver(ResultSquad, [i \in DOMAIN players |-> players[i].now_cost])
        /\ DOMAIN result.per_position = {"GK", "DEF", "MID", "FWD"}
        /\ \A p, q \in DOMAIN result.per_position :
              p # q => ListedIds(p) \cap ListedIds(q) = {}
        /\ UNION {ListedIds(p) : p \in DOMAIN result.per_position}
             = {players[i].id : i \in ResultSquad}
        /\ Cardinality({players[i].id : i \in ResultSquad}) = 15
        /\ DOMAIN result.club_counts = SelectedClubs
        /\ \A club \in SelectedClubs :
              result.club_counts[club]
                = Cardinality({i \in ResultSquad : players[i].team = club})
        /\ SumOver(SelectedClubs, result.club_counts) = 15
        /\ result.objective_details.objective_value = result.expected_points

\* a SquadResult of the exact solver and one of the heuristic solver, of
\* positive cost and with a club of 3 selected players
C25_Witness ==
    /\ SquadResultBuilt /\ solver = "mip"
    /\ result.total_cost > 0
    /\ \E club \in SelectedClubs : result.club_counts[club] = 3

C25_WitnessGa ==
    /\ SquadResultBuilt /\ solver = "ga"
    /\ result.total_cost > 0
    /\ \E club \in SelectedClubs : result.club_counts[club] = 3

----------------------------------------------------------------------------
(* The lineup selector: the best rows of every class *)

\* the bench of the returned lineup, as rows of the squad table
BenchRows == Range(lineup.bench)

(* C26: in the returned lineup, within every position class the starters
   are the top-N of the class by the round's expected points: no bench
   player has strictly higher round expected points than a starter of the
   same position class. *)
C26_StartersAreTopOfClass ==
    LineupReturned =>
        \A i \in Starters, j \in BenchRows :
            squad_df[i].position = squad_df[j].position
                => RoundPoints(j) <= RoundPoints(i)

\* a returned lineup with a bench player strictly below and a bench player
\* level with a starter of the same class
C26_Witness ==
    /\ LineupReturned
    /\ \E i \in Starters, j \in BenchRows :
          /\ squad_df[i].position = squad_df[j].position
          /\ RoundPoints(j) < RoundPoints(i)
    /\ \E i \in Starters, j \in BenchRows :
          /\ squad_df[i].position = squad_df[j].position
          /\ RoundPoints(j) = RoundPoints(i)

----------------------------------------------------------------------------
(* The heuristic solver: the second, cost-ascending pass *)

NonNegativeCosts == \A i \in DOMAIN players : players[i].now_cost >= 0

\* a step of the second pass adds nobody and spends nothing, and the pass is
\* left only by raising InfeasibleError
SecondPassStaysPut ==
    /\ selected_players' = selected_players
    /\ remaining_budget' = remaining_budget
    /\ pc' # "ga_pass2" => (pc' = "raised" /\ err'.kind = "InfeasibleError")

(* C27: in the heuristic solver, for pools whose costs are non-negative,
   the second (cost-ascending) pass never adds a player; hence whenever the
   first pass leaves a quota unfilled the heuristic raises InfeasibleError,
   and the players selected are exactly those selected by the first
   passes. *)
C27_SecondPassAddsNobody ==
    [][(pc = "ga_pass2" /\ NonNegativeCosts) => SecondPassStaysPut]_vars

\* the same without the condition on the costs: refuted by the pool with a
\* goalkeeper of negative cost
C27_SecondPassAddsNobodyAtAnyCost ==
    [][pc = "ga_pass2" => SecondPassStaysPut]_vars

\* the second pass went through every candidate of a class, some of them
\* skipped in the first pass for the budget and some for the club cap, and
\* the call raised InfeasibleError
C27_Witness ==
    /\ pc = "raised" /\ solver = "ga" /\ err.kind = "InfeasibleError"
    /\ NonNegativeCosts
    /\ cheapest_todo = {}
    /\ count < ga_limit(element_type)
    /\ \E i \in Range(position_players) \ Range(selected_players) :
          players[i].now_cost > remaining_budget

C27_WitnessClubCap ==
    /\ pc = "raised" /\ solver = "ga" /\ err.kind = "InfeasibleError"
    /\ NonNegativeCosts
    /\ cheapest_todo = {}
    /\ count < ga_limit(element_type)
    /\ \E i \in Range(position_players) \ Range(selected_players) :
          players[i].now_cost <= remaining_budget

----------------------------------------------------------------------------
(* Pools of fewer than 5 clubs *)

FewerThanFiveClubs == Cardinality({players[i].team : i \in DOMAIN players}) < 5

\* the call reached its solver, exact or heuristic, and has ended
SolverEnded ==
    /\ pc \in {"done", "raised"}
    /\ exp_pts_window # << >>
    /\ solver \in {"mip", "ga"}

(* C28: if the players of the pool belong to fewer than 5 distinct clubs,
   select_initial_squad never returns a squad: at most 3 players per club
   may be selected, so at most 12 are selectable, and both the exact and the
   heuristic solver raise InfeasibleError whatever the budget, the position
   counts and the expected points are. *)
C28_FewClubsNeverReturn ==
    FewerThanFiveClubs =>
        /\ pc # "done" /\ result.kind # "SquadResult"
        /\ SolverEnded => (pc = "raised" /\ err.kind = "InfeasibleError")
        /\ Len(selected_players) <= 12

\* the heuristic has taken 3 players of each of 4 clubs and raised, and the
\* exact solver has raised on a pool of 4 clubs
C28_Witness ==
    /\ FewerThanFiveClubs /\ SolverEnded /\ solver = "ga"
    /\ err.kind = "InfeasibleError"
    /\ Len(selected_players) = 12

C28_WitnessMip ==
    /\ FewerThanFiveClubs /\ SolverEnded /\ solver = "mip"
    /\ err.kind = "InfeasibleError"
    /\ Cardinality({players[i].team : i \in DOMAIN players}) = 4

----------------------------------------------------------------------------
(* The lineup selector against every legal lineup *)

NonNegativeRoundPoints == \A i \in DOMAIN squad_df : RoundPoints(i) >= 0

\* every legal set of starters: an allowed formation, any 1 GK and any
\* formation-sized sets of DEF, MID and FWD of the squad
LegalStarters ==
    UNION {{G \cup D \cup M \cup F :
              G \in KSubsets(SquadClass("GK"), 1),
              D \in KSubsets(SquadClass("DEF"), Formations[k][1]),
              M \in KSubsets(SquadClass("MID"), Formations[k][2]),
              F \in KSubsets(SquadClass("FWD"), Formations[k][3])} :
           k \in DOMAIN Formations}

\* the score of a legal lineup with captain c and a vice-captain weight of
\* 1.0, in tenths of 1/RoundScale points
LineupScore(xi, c) ==
    10 * SumOver(xi, [i \in DOMAIN squad_df |-> RoundPoints(i)])
      + (captain_multiplier - 10) * RoundPoints(c)

\* no legal lineup scores more than the returned one
NoLegalLineupScoresMore ==
    \A xi \in LegalStarters : \A c \in xi :
        LineupScore(xi, c) <= lineup.expected_points_gw1

\* the returned lineup is a legal lineup of the returned score
ReturnedScoreIsOfLegalLineup ==
    /\ Starters \in LegalStarters
    /\ \E c \in Starters :
          /\ squad_df[c].id = lineup.captain_id
          /\ lineup.expected_points_gw1 = LineupScore(Starters, c)

(* C29: for a 2/5/5/3 squad with non-negative round expected points,
   captain_multiplier >= 1 and vice_captain_multiplier = 1, the score
   returned by select_starting_eleven is the maximum score over all legal
   lineups: every allowed formation, any 1 GK, any formation-sized sets of
   DEF, MID and FWD, any captain among the chosen starters. *)
C29_ScoreIsGlobalMaximum ==
    (/\ StandardSquad /\ NonNegativeRoundPoints
     /\ captain_multiplier >= 10 /\ vice_captain_multiplier = 10
     /\ LineupEnded)
        => /\ LineupReturned
           /\ ReturnedScoreIsOfLegalLineup
           /\ NoLegalLineupScoresMore

\* the same with any captain weight: refuted by a weight of 0.5, where the
\* lowest starter is the better captain
C29_ScoreIsGlobalMaximumAtAnyWeight ==
    (/\ StandardSquad /\ NonNegativeRoundPoints
     /\ vice_captain_multiplier = 10
     /\ LineupReturned)
        => NoLegalLineupScoresMore

\* a returned lineup of such a squad, with level values inside a class and a
\* legal lineup of another formation that scores strictly less
C29_Witness ==
    /\ StandardSquad /\ NonNegativeRoundPoints
    /\ captain_multiplier >= 10 /\ vice_captain_multiplier = 10
    /\ LineupReturned
    /\ \E i \in Starters, j \in BenchRows :
          squad_df[i].position = squad_df[j].position /\ RoundPoints(i) = RoundPoints(j)
    /\ \E xi \in LegalStarters : \E c \in xi :
          LineupScore(xi, c) < lineup.expected_points_gw1

----------------------------------------------------------------------------
(* The expected-points builder: named columns that exist only in part *)

\* a named column is missing from the players table
SomeNamedColumnMissing == ~NamedColumnsExist

\* a named column that the players table has
ExistingNamed(k) ==
    \A i \in DOMAIN players : NamedColumns[k] \in DOMAIN players[i].ep

\* max(0.5, total_points / 38) in 1/38ths, a missing total_points being 50
SynthesizedBaseline(i) ==
    LET tp == IF players[i].total_points_isna THEN 50 ELSE players[i].total_points
    IN IF tp > 19 THEN tp ELSE 19

(* C30: in the expected-points builder, if at least one of the named
   per-round columns is missing from the players table, every named column
   is computed from the synthesized baseline max(0.5, total_points / 38)
   times the round's multiplier (a missing total_points value counting as
   50), so the values of the named columns that did exist are overwritten
   and do not influence the windowed total; existing values are scaled only
   when all named columns exist. *)
C30_PartialColumnsAreSynthesized ==
    (Built /\ OneFixturePerRound) =>
        /\ SomeNamedColumnMissing =>
              \A i \in DOMAIN players :
                 /\ \A k \in DOMAIN NamedColumns :
                       players_work[k][i] =
                           SynthesizedBaseline(i)
                             * RoundMultiplier(players[i].team, gw_start + k - 1)
                 /\ exp_pts_window[i] =
                       SumOver(DOMAIN NamedColumns, [k \in DOMAIN NamedColumns |->
                           SynthesizedBaseline(i)
                             * RoundMultiplier(players[i].team, gw_start + k - 1)])
        /\ NamedColumnsExist =>
              \A i \in DOMAIN players : \A k \in DOMAIN NamedColumns :
                 players_work[k][i] =
                     players[i].ep[NamedColumns[k]]
                       * RoundMultiplier(players[i].team, gw_start + k - 1)

\* one named column exists and another is missing; the existing value differs
\* from the baseline and has been overwritten; a player's total_points is
\* missing and his columns are built from 50
C30_Witness ==
    /\ Built
    /\ \E k, m \in DOMAIN NamedColumns :
          /\ ExistingNamed(k) /\ ~ExistingNamed(m)
          /\ \E i \in DOMAIN players :
                /\ players[i].ep[NamedColumns[k]] # SynthesizedBaseline(i)
                /\ players_work[k][i] =
                      SynthesizedBaseline(i)
                        * RoundMultiplier(players[i].team, gw_start + k - 1)
    /\ \E i \in DOMAIN players :
          /\ players[i].total_points_isna
          /\ players_work[1][i] = 50 * RoundMultiplier(players[i].team, gw_start)

====
